---- MODULE Spec2Model ----
(***************************************************************************)
(* Service-lifecycle manager for the gateway daemon under systemd          *)
(* (src/src/daemon/systemd.ts).  Texts are sequences of one-character      *)
(* strings, so that trim, toLowerCase, includes and string concatenation   *)
(* are computed character by character.                                     *)
(***************************************************************************)
EXTENDS Integers, Sequences, FiniteSets, TLC

\* ------------------------------------------------------------------ texts

UPPER ==
    <<"A","B","C","D","E","F","G","H","I","J","K","L","M","N","O","P","Q","R",
      "S","T","U","V","W","X","Y","Z">>
LOWER ==
    <<"a","b","c","d","e","f","g","h","i","j","k","l","m","n","o","p","q","r",
      "s","t","u","v","w","x","y","z">>

WS ==
    {" ", "\t", "\n", "\r"}

\* String.prototype.toLowerCase on one character
LowerChar(ch) ==
    IF \E i \in 1..Len(UPPER) : UPPER[i] = ch
    THEN LOWER[CHOOSE i \in 1..Len(UPPER) : UPPER[i] = ch]
    ELSE ch

\* String.prototype.toLowerCase
ToLowerCase(s) ==
    [i \in 1..Len(s) |-> LowerChar(s[i])]

NonWs(s) ==
    {i \in 1..Len(s) : s[i] \notin WS}

\* String.prototype.trim
Trim(s) ==
    IF NonWs(s) = {} THEN <<>>
    ELSE SubSeq(s, CHOOSE i \in NonWs(s) : \A j \in NonWs(s) : i <= j,
                   CHOOSE i \in NonWs(s) : \A j \in NonWs(s) : i >= j)

\* String.prototype.includes
Includes(s, sub) ==
    \E i \in 1..(Len(s) - Len(sub) + 1) : SubSeq(s, i, i + Len(sub) - 1) = sub

\* String.prototype.endsWith
EndsWith(s, suffix) ==
    /\ Len(s) >= Len(suffix)
    /\ SubSeq(s, Len(s) - Len(suffix) + 1, Len(s)) = suffix

\* a || b on strings: the empty string is falsy
StrOr(a, b) ==
    IF a # <<>> THEN a ELSE b

S_system ==
    <<"s","y","s","t","e","m">>
S_user ==
    <<"u","s","e","r">>
S_failed_to_connect ==
    <<"f","a","i","l","e","d"," ","t","o"," ","c","o","n","n","e","c","t">>
S_not_been_booted ==
    <<"n","o","t"," ","b","e","e","n"," ","b","o","o","t","e","d">>
S_no_such_file ==
    <<"n","o"," ","s","u","c","h"," ","f","i","l","e"," ","o","r"," ","d","i",
      "r","e","c","t","o","r","y">>
S_not_supported ==
    <<"n","o","t"," ","s","u","p","p","o","r","t","e","d">>
S_not_found ==
    <<"n","o","t"," ","f","o","u","n","d">>
S_active ==
    <<"a","c","t","i","v","e">>
S_dot_service ==
    <<".","s","e","r","v","i","c","e">>
S_activestate ==
    <<"a","c","t","i","v","e","s","t","a","t","e">>
S_substate ==
    <<"s","u","b","s","t","a","t","e">>
S_mainpid ==
    <<"m","a","i","n","p","i","d">>
S_execmainstatus ==
    <<"e","x","e","c","m","a","i","n","s","t","a","t","u","s">>
S_execmaincode ==
    <<"e","x","e","c","m","a","i","n","c","o","d","e">>
S_Error_prefix ==
    <<"E","r","r","o","r",":"," ">>
S_not_available ==
    <<"s","y","s","t","e","m","c","t","l"," ","n","o","t"," ","a","v","a","i",
      "l","a","b","l","e",";"," ","s","y","s","t","e","m","d"," ","s","e","r",
      "v","i","c","e","s"," ","a","r","e"," ","r","e","q","u","i","r","e","d",
      " ","o","n"," ","L","i","n","u","x",".">>
S_systemctl_paren ==
    <<"s","y","s","t","e","m","c","t","l"," ","(">>
S_unavailable ==
    <<")"," ","u","n","a","v","a","i","l","a","b","l","e",":"," ">>
S_unknown_error ==
    <<"u","n","k","n","o","w","n"," ","e","r","r","o","r">>
S_reload_failed ==
    <<"s","y","s","t","e","m","c","t","l"," ","d","a","e","m","o","n","-","r",
      "e","l","o","a","d"," ","f","a","i","l","e","d",":"," ">>
S_enable_failed ==
    <<"s","y","s","t","e","m","c","t","l"," ","e","n","a","b","l","e"," ","f",
      "a","i","l","e","d",":"," ">>
S_restart_failed ==
    <<"s","y","s","t","e","m","c","t","l"," ","r","e","s","t","a","r","t"," ",
      "f","a","i","l","e","d",":"," ">>
S_stop_failed ==
    <<"s","y","s","t","e","m","c","t","l"," ","s","t","o","p"," ","f","a","i",
      "l","e","d",":"," ">>
T_Enabled ==
    <<"e","n","a","b","l","e","d">>
T_Disabled ==
    <<"d","i","s","a","b","l","e","d">>
S_clawdbot_gateway ==
    <<"c","l","a","w","d","b","o","t","-","g","a","t","e","w","a","y">>
S_moltbot_gateway ==
    <<"m","o","l","t","b","o","t","-","g","a","t","e","w","a","y">>
S_gateway ==
    <<"o","p","e","n","c","l","a","w","-","g","a","t","e","w","a","y">>
T_FailedToConnect ==
    <<"F","a","i","l","e","d"," ","t","o"," ","c","o","n","n","e","c","t"," ",
      "t","o"," ","b","u","s">>
T_NotSupported ==
    <<"O","p","e","r","a","t","i","o","n"," ","n","o","t"," ","s","u","p","p",
      "o","r","t","e","d">>
T_NotBooted ==
    <<"S","y","s","t","e","m"," ","h","a","s"," ","n","o","t"," ","b","e","e",
      "n"," ","b","o","o","t","e","d">>
T_NoSuchFile ==
    <<"N","o"," ","s","u","c","h"," ","f","i","l","e"," ","o","r"," ","d","i",
      "r","e","c","t","o","r","y">>
T_UnitNotFound ==
    <<"U","n","i","t"," ","f","o","o",".","s","e","r","v","i","c","e"," ","n",
      "o","t"," ","f","o","u","n","d",".">>
T_CmdNotFound ==
    <<"s","y","s","t","e","m","c","t","l",":"," ","c","o","m","m","a","n","d",
      " ","N","O","T"," ","F","O","U","N","D">>
T_Boom ==
    <<"b","o","o","m">>
T_Denied ==
    <<"A","c","c","e","s","s"," ","d","e","n","i","e","d">>
V_SystemPadded ==
    <<" ","S","y","s","t","e","m"," ">>
V_UserUpper ==
    <<"U","S","E","R">>
V_Session ==
    <<"s","e","s","s","i","o","n">>

DIGITS ==
    <<"0","1","2","3","4","5","6","7","8","9">>
S_home ==
    <<"/","h","o","m","e","/","u">>
S_unit_dir ==
    <<"/",".","c","o","n","f","i","g","/","s","y","s","t","e","m","d","/","u",
      "s","e","r","/">>
S_bak ==
    <<".","b","a","k">>
S_Description_eq ==
    <<"D","e","s","c","r","i","p","t","i","o","n","=">>
S_ExecStart_eq ==
    <<"E","x","e","c","S","t","a","r","t","=">>
S_WorkingDirectory_eq ==
    <<"W","o","r","k","i","n","g","D","i","r","e","c","t","o","r","y","=">>
S_Environment_eq ==
    <<"E","n","v","i","r","o","n","m","e","n","t","=">>
S_default_description ==
    <<"O","p","e","n","C","l","a","w"," ","G","a","t","e","w","a","y">>
V_CustomUnit ==
    <<" ","c","u","s","t","o","m",".","s","e","r","v","i","c","e">>
A_node ==
    <<"/","u","s","r","/","b","i","n","/","n","o","d","e">>
A_server ==
    <<"s","e","r","v","e","r",".","j","s">>
A_my_app ==
    <<"m","y"," ","a","p","p",".","j","s">>
A_srv ==
    <<"/","s","r","v">>
K_NODE_ENV ==
    <<"N","O","D","E","_","E","N","V">>
A_production ==
    <<"p","r","o","d","u","c","t","i","o","n">>
A_gw ==
    <<"g","w">>
A_say_hi ==
    <<"s","a","y"," ","\"","h","i","\"">>
A_win_dir ==
    <<"C",":","\\","d","i","r">>
A_tabbed ==
    <<"a","\t","b">>
A_lead ==
    <<" ","l","e","a","d">>
A_tail_bs ==
    <<"t","a","i","l","\\">>
A_its ==
    <<"i","t","'","s">>
A_mixed ==
    <<"a"," ","\"","b","\""," ","\\","c"," ","d">>
A_port ==
    <<"-","-","p","o","r","t">>
A_8080 ==
    <<"8","0","8","0">>
A_my_dir ==
    <<"/","m","y"," ","d","i","r">>
A_a_b ==
    <<"a"," ","b">>
A_quoted_value ==
    <<"q","\"","u"," ","o","\\","e">>
K_PATH ==
    <<"P","A","T","H">>
U_CommentOnly ==
    <<"#"," ","n","o"," ","c","o","m","m","a","n","d"," ","h","e","r","e",
      "\n","\n"," "," "," ","\n">>
U_EmptyExecStart ==
    <<"D","e","s","c","r","i","p","t","i","o","n","=","x","\n","E","x","e",
      "c","S","t","a","r","t","=","\n">>
U_BlankExecStart ==
    <<"E","x","e","c","S","t","a","r","t","="," "," "," ","\n","W","o","r",
      "k","i","n","g","D","i","r","e","c","t","o","r","y","=","/","s","r","v",
      "\n">>
U_CommentedExecStart ==
    <<"#"," ","E","x","e","c","S","t","a","r","t","=","/","b","i","n","/","t",
      "r","u","e","\n","E","n","v","i","r","o","n","m","e","n","t","=","N",
      "O","D","E","_","E","N","V","=","p","r","o","d","u","c","t","i","o","n",
      "\n">>
U_Indented ==
    <<" "," ","E","x","e","c","S","t","a","r","t","=","/","b","i","n","/","t",
      "r","u","e"," "," ","\n"," "," ","#"," ","E","x","e","c","S","t","a",
      "r","t","=","/","b","i","n","/","f","a","l","s","e","\n">>
U_Overridden ==
    <<"E","x","e","c","S","t","a","r","t","=","/","b","i","n","/","t","r","u",
      "e","\n","E","x","e","c","S","t","a","r","t","=","\n">>
U_NotAtStart ==
    <<"E","x","e","c","=","/","b","i","n","/","t","r","u","e","\n","X","E",
      "x","e","c","S","t","a","r","t","=","/","b","i","n","/","t","r","u","e",
      "\n">>
U_EnvOverwrite ==
    <<"E","x","e","c","S","t","a","r","t","=","/","b","i","n","/","t","r","u",
      "e","\n","E","n","v","i","r","o","n","m","e","n","t","=","N","O","D",
      "E","_","E","N","V","=","a","\n","E","n","v","i","r","o","n","m","e",
      "n","t","=","N","O","D","E","_","E","N","V","=","p","r","o","d","u","c",
      "t","i","o","n","\n","E","n","v","i","r","o","n","m","e","n","t","=",
      "=","x","\n">>
A_bin_true ==
    <<"/","b","i","n","/","t","r","u","e">>
U_QuotesOnly ==
    <<"E","x","e","c","S","t","a","r","t","=","\"","\"","\n">>
U_BackslashOnly ==
    <<"E","x","e","c","S","t","a","r","t","=","\\","\n">>
F_Foreign ==
    <<"#"," ","e","d","i","t","e","d"," ","b","y"," ","h","a","n","d","\n",
      "E","x","e","c","S","t","a","r","t","=","/","b","i","n","/","t","r","u",
      "e","\n">>
O_Running ==
    <<"A","c","t","i","v","e","S","t","a","t","e","=","a","c","t","i","v","e",
      "\n","S","u","b","S","t","a","t","e","=","r","u","n","n","i","n","g",
      "\n","M","a","i","n","P","I","D","=","4","8","2","1","\n","E","x","e",
      "c","M","a","i","n","S","t","a","t","u","s","=","0","\n","E","x","e",
      "c","M","a","i","n","C","o","d","e","=","e","x","i","t","e","d">>
O_Inactive ==
    <<"A","c","t","i","v","e","S","t","a","t","e","=","i","n","a","c","t","i",
      "v","e","\n","S","u","b","S","t","a","t","e","=","d","e","a","d","\n",
      "M","a","i","n","P","I","D","=","0","\n","E","x","e","c","M","a","i",
      "n","S","t","a","t","u","s","=","1","\n","E","x","e","c","M","a","i",
      "n","C","o","d","e","=","e","x","i","t","e","d">>
O_Failed ==
    <<"A","c","t","i","v","e","S","t","a","t","e","=","f","a","i","l","e","d",
      "\n","S","u","b","S","t","a","t","e","=","f","a","i","l","e","d">>
O_Activating ==
    <<"A","c","t","i","v","e","S","t","a","t","e","=","a","c","t","i","v","a",
      "t","i","n","g","\n","S","u","b","S","t","a","t","e","=","s","t","a",
      "r","t">>
O_EmptyState ==
    <<"A","c","t","i","v","e","S","t","a","t","e","=","\n","S","u","b","S",
      "t","a","t","e","=","d","e","a","d">>
O_NoState ==
    <<"S","u","b","S","t","a","t","e","=","d","e","a","d","\n","M","a","i",
      "n","P","I","D","=","1","7">>
O_UpperActive ==
    <<"a","c","t","i","v","e","s","t","a","t","e","=","A","C","T","I","V",
      "E">>
T_UnitNotFoundUpper ==
    <<"U","n","i","t"," ","o","p","e","n","c","l","a","w","-","g","a","t","e",
      "w","a","y",".","s","e","r","v","i","c","e"," ","N","o","t"," ","F","o",
      "u","n","d",".">>

\* ------------------------------------------------------- command runner

\* the value of an unset variable, an absent optional field
Undefined ==
    <<"undefined">>

\* what execFileUtf8 resolves to: it never throws on a non-zero exit
Res(code, stderr, stdout) ==
    [code |-> code, stderr |-> stderr, stdout |-> stdout]

\* ------------------------------------------------------- scope resolver

UserArgs ==
    <<"--user">>

SystemArgs ==
    <<>>

\* values process.env.OPENCLAW_SYSTEMD_SCOPE may hold
ScopeOverrides ==
    {Undefined, V_SystemPadded, V_UserUpper, V_Session}

\* outcomes of the auto-detect probe `systemctl --user status`
ProbeResults ==
    { Res(0, <<>>, <<>>),
      Res(1, T_FailedToConnect, <<>>),
      Res(1, T_NotBooted, <<>>),
      Res(1, <<>>, T_NoSuchFile),
      Res(1, T_Boom, T_NotSupported),
      Res(1, T_Denied, <<>>),
      Res(1, <<>>, <<>>) }

\* process.env.OPENCLAW_SYSTEMD_SCOPE?.trim().toLowerCase()
Explicit(value) ==
    IF value = Undefined THEN Undefined ELSE ToLowerCase(Trim(value))

\* BusFailure looking at stderr alone
BusFailureStderrOnly(res) ==
    LET detail == ToLowerCase(res.stderr)
    IN  \/ Includes(detail, S_failed_to_connect)
        \/ Includes(detail, S_not_been_booted)
        \/ Includes(detail, S_no_such_file)
        \/ Includes(detail, S_not_supported)

\* the bus-failure test on the probe's combined output
BusFailure(res) ==
    LET detail == ToLowerCase(res.stderr \o <<" ">> \o res.stdout)
    IN  \/ Includes(detail, S_failed_to_connect)
        \/ Includes(detail, S_not_been_booted)
        \/ Includes(detail, S_no_such_file)
        \/ Includes(detail, S_not_supported)

\* the decision taken from the probe's result
ProbeDecision(res) ==
    IF res.code = 0 THEN UserArgs
    ELSE IF BusFailure(res) THEN SystemArgs ELSE UserArgs

\* ------------------------------------------------------ unit identity

\* environments a caller may pass (GatewayServiceEnv)
NoEnv ==
    [OPENCLAW_SYSTEMD_UNIT |-> Undefined, OPENCLAW_PROFILE |-> Undefined]

CustomEnv ==
    [OPENCLAW_SYSTEMD_UNIT |-> V_CustomUnit, OPENCLAW_PROFILE |-> Undefined]

Envs ==
    {NoEnv, CustomEnv}

\* the unit name derived from the profile
resolveGatewaySystemdServiceName(profile) ==
    IF profile = Undefined \/ profile = <<>>
    THEN S_gateway
    ELSE S_gateway \o <<"-">> \o profile

resolveSystemdServiceName(env) ==
    LET override == IF env.OPENCLAW_SYSTEMD_UNIT = Undefined THEN Undefined
                    ELSE Trim(env.OPENCLAW_SYSTEMD_UNIT)
    IN  IF override # Undefined /\ override # <<>>
        THEN IF EndsWith(override, S_dot_service)
             THEN SubSeq(override, 1, Len(override) - Len(S_dot_service))
             ELSE override
        ELSE resolveGatewaySystemdServiceName(env.OPENCLAW_PROFILE)

resolveSystemdUnitPathForName(env, name) ==
    S_home \o S_unit_dir \o name \o S_dot_service

resolveSystemdUnitPath(env) ==
    resolveSystemdUnitPathForName(env, resolveSystemdServiceName(env))

\* path.dirname(unitPath)
UnitDir(env) ==
    S_home \o SubSeq(S_unit_dir, 1, Len(S_unit_dir) - 1)

BackupPath(unitPath) ==
    unitPath \o S_bak

\* ------------------------------------------------- unit descriptor codec

\* install arguments: programArguments, workingDirectory, environment
\* (insertion-ordered key/value pairs), description
CfgNode ==
    [programArguments |-> <<A_node, A_server>>,
     workingDirectory |-> Undefined,
     environment |-> << <<K_NODE_ENV, A_production>> >>,
     description |-> Undefined]

CfgApp ==
    [programArguments |-> <<A_node, A_my_app>>,
     workingDirectory |-> A_srv,
     environment |-> <<>>,
     description |-> A_gw]

NoCfg ==
    [programArguments |-> <<>>, workingDirectory |-> Undefined,
     environment |-> <<>>, description |-> Undefined]

resolveGatewayServiceDescription(env, cfg) ==
    IF cfg.description # Undefined /\ cfg.description # <<>>
    THEN cfg.description
    ELSE S_default_description

NeedsQuoting(arg) ==
    \E i \in 1..Len(arg) : arg[i] \in WS \cup {"\"", "\\"}

RECURSIVE EscapeChars(_)
EscapeChars(s) ==
    IF s = <<>> THEN <<>>
    ELSE (IF Head(s) \in {"\"", "\\"} THEN <<"\\", Head(s)>> ELSE <<Head(s)>>)
         \o EscapeChars(Tail(s))

\* shell-safe quoting of one argument
QuoteArg(arg) ==
    IF NeedsQuoting(arg) THEN <<"\"">> \o EscapeChars(arg) \o <<"\"">> ELSE arg

RECURSIVE JoinWith(_, _)
JoinWith(parts, sep) ==
    IF parts = <<>> THEN <<>>
    ELSE IF Len(parts) = 1 THEN parts[1]
    ELSE parts[1] \o sep \o JoinWith(Tail(parts), sep)

RenderEnvLine(pair) ==
    S_Environment_eq \o pair[1] \o <<"=">> \o QuoteArg(pair[2])

buildSystemdUnit(description, programArguments, workingDirectory, environment) ==
    LET execStart == JoinWith([i \in 1..Len(programArguments) |->
                                  QuoteArg(programArguments[i])], <<" ">>)
        lines == << S_Description_eq \o description,
                    S_ExecStart_eq \o execStart >>
                 \o (IF workingDirectory # Undefined /\ workingDirectory # <<>>
                     THEN << S_WorkingDirectory_eq \o workingDirectory >>
                     ELSE <<>>)
                 \o [i \in 1..Len(environment) |-> RenderEnvLine(environment[i])]
    IN  JoinWith(lines, <<"\n">>) \o <<"\n">>

\* ----------------------------------------------- key/value output parser

IndexOf(s, ch) ==
    IF \E i \in 1..Len(s) : s[i] = ch
    THEN CHOOSE i \in 1..Len(s) : s[i] = ch /\ \A j \in 1..(i - 1) : s[j] # ch
    ELSE 0

RECURSIVE SplitOn(_, _)
SplitOn(s, ch) ==
    IF IndexOf(s, ch) = 0 THEN <<s>>
    ELSE <<SubSeq(s, 1, IndexOf(s, ch) - 1)>>
         \o SplitOn(SubSeq(s, IndexOf(s, ch) + 1, Len(s)), ch)

\* the entries as key/value pairs in line order; keys lower-cased
parseKeyValueOutput(output, separator) ==
    LET lines == SplitOn(output, "\n")
        good == SelectSeq(lines, LAMBDA l : IndexOf(l, separator) > 1)
    IN  [i \in 1..Len(good) |->
            << ToLowerCase(SubSeq(good[i], 1, IndexOf(good[i], separator) - 1)),
               SubSeq(good[i], IndexOf(good[i], separator) + 1, Len(good[i])) >>]

\* entries[key]: the last assignment wins, a missing key is undefined
Lookup(entries, key) ==
    LET hits == {i \in 1..Len(entries) : entries[i][1] = key}
    IN  IF hits = {} THEN Undefined
        ELSE entries[CHOOSE i \in hits : \A j \in hits : i >= j][2]

\* JavaScript truthiness of an optional string
Truthy(v) ==
    v # Undefined /\ v # <<>>

DigitValue(ch) ==
    (CHOOSE i \in 1..Len(DIGITS) : DIGITS[i] = ch) - 1

IsDigit(ch) ==
    \E i \in 1..Len(DIGITS) : DIGITS[i] = ch

RECURSIVE DigitsPrefix(_)
DigitsPrefix(s) ==
    IF s = <<>> \/ ~IsDigit(Head(s)) THEN <<>>
    ELSE <<Head(s)>> \o DigitsPrefix(Tail(s))

RECURSIVE DecimalValue(_)
DecimalValue(ds) ==
    IF ds = <<>> THEN 0
    ELSE DecimalValue(SubSeq(ds, 1, Len(ds) - 1)) * 10 + DigitValue(ds[Len(ds)])

\* Number.parseInt(s, 10): {} is NaN, {n} the integer n
ParseInt(s) ==
    LET t == IF NonWs(s) = {} THEN <<>>
             ELSE SubSeq(s, CHOOSE i \in NonWs(s) : \A j \in NonWs(s) : i <= j, Len(s))
        signed == t # <<>> /\ Head(t) \in {"-", "+"}
        body == IF signed THEN Tail(t) ELSE t
        ds == DigitsPrefix(body)
    IN  IF ds = <<>> THEN {}
        ELSE IF signed /\ Head(t) = "-" THEN {0 - DecimalValue(ds)}
        ELSE {DecimalValue(ds)}

parseSystemdShow(output) ==
    LET entries == parseKeyValueOutput(output, "=")
        activeState == Lookup(entries, S_activestate)
        subState == Lookup(entries, S_substate)
        mainPidValue == Lookup(entries, S_mainpid)
        execMainStatusValue == Lookup(entries, S_execmainstatus)
        execMainCode == Lookup(entries, S_execmaincode)
    IN  [activeState |-> IF Truthy(activeState) THEN activeState ELSE Undefined,
         subState |-> IF Truthy(subState) THEN subState ELSE Undefined,
         mainPid |-> IF Truthy(mainPidValue)
                     THEN {p \in ParseInt(mainPidValue) : p > 0} ELSE {},
         execMainStatus |-> IF Truthy(execMainStatusValue)
                            THEN ParseInt(execMainStatusValue) ELSE {},
         execMainCode |-> IF Truthy(execMainCode) THEN execMainCode ELSE Undefined]

\* ------------------------------------------------------- status reader

\* what `systemctl show` may print on success
ShowOutputs ==
    {O_Running, O_Inactive, O_Failed, O_Activating, O_EmptyState, O_NoState,
     O_UpperActive, <<>>}

ShowResults ==
    {Res(0, <<>>, o) : o \in ShowOutputs}
    \cup { Res(1, T_UnitNotFound, <<>>), Res(1, <<>>, T_UnitNotFoundUpper),
           Res(1, T_Denied, T_UnitNotFound), Res(1, <<>>, <<>>) }

NoRuntime ==
    [status |-> "none", state |-> Undefined, subState |-> Undefined, pid |-> {},
     lastExitStatus |-> {}, lastExitReason |-> Undefined, detail |-> Undefined,
     missingUnit |-> {}]

\* RuntimeStatus comparing the raw state without lower-casing it
RuntimeStatusCaseSensitive(raw) ==
    IF raw = S_active THEN "running"
    ELSE IF Truthy(raw) THEN "stopped" ELSE "unknown"

\* the status of a unit whose raw ActiveState is `raw` (undefined when absent)
RuntimeStatus(raw) ==
    LET activeState == IF raw = Undefined THEN Undefined ELSE ToLowerCase(raw)
    IN  IF activeState = S_active THEN "running"
        ELSE IF Truthy(activeState) THEN "stopped" ELSE "unknown"

\* RuntimeOfFailedShow looking for "not found" without lower-casing the text
RuntimeOfFailedShowCaseSensitive(res) ==
    LET detail == Trim(StrOr(res.stderr, res.stdout))
        missing == Includes(detail, S_not_found)
    IN  [NoRuntime EXCEPT !.status = IF missing THEN "stopped" ELSE "unknown",
                          !.detail = IF detail # <<>> THEN detail ELSE Undefined,
                          !.missingUnit = {missing}]

\* the result when the show query exited non-zero
RuntimeOfFailedShow(res) ==
    LET detail == Trim(StrOr(res.stderr, res.stdout))
        missing == Includes(ToLowerCase(detail), S_not_found)
    IN  [NoRuntime EXCEPT !.status = IF missing THEN "stopped" ELSE "unknown",
                          !.detail = IF detail # <<>> THEN detail ELSE Undefined,
                          !.missingUnit = {missing}]

\* RuntimeOfShow reporting the lower-cased state it compares
RuntimeOfShowLowerState(res) ==
    LET parsed == parseSystemdShow(res.stdout)
    IN  [NoRuntime EXCEPT !.status = RuntimeStatus(parsed.activeState),
                          !.state = IF parsed.activeState = Undefined THEN Undefined
                                    ELSE ToLowerCase(parsed.activeState),
                          !.subState = parsed.subState,
                          !.pid = parsed.mainPid,
                          !.lastExitStatus = parsed.execMainStatus,
                          !.lastExitReason = parsed.execMainCode]

\* the result when the show query exited 0
RuntimeOfShow(res) ==
    LET parsed == parseSystemdShow(res.stdout)
    IN  [NoRuntime EXCEPT !.status = RuntimeStatus(parsed.activeState),
                          !.state = parsed.activeState,
                          !.subState = parsed.subState,
                          !.pid = parsed.mainPid,
                          !.lastExitStatus = parsed.execMainStatus,
                          !.lastExitReason = parsed.execMainCode]

\* the result when assertSystemdAvailable threw `message`
RuntimeOfUnavailable(message) ==
    [NoRuntime EXCEPT !.status = "unknown", !.detail = S_Error_prefix \o message]

\* ------------------------------------------------- availability assertion

StatusResults ==
    { Res(0, <<>>, <<>>),
      Res(1, T_CmdNotFound, <<>>),
      Res(1, T_FailedToConnect, <<>>),
      Res(1, <<>>, T_Denied),
      Res(1, T_Denied, T_CmdNotFound),
      Res(1, <<>>, <<>>) }

ScopeLabel(scope) ==
    IF Len(scope) > 0 THEN S_user ELSE S_system

\* AssertMessage comparing the detail without lower-casing it
AssertMessageCaseSensitive(scopeLabel, res) ==
    LET detail == StrOr(res.stderr, res.stdout)
    IN  IF Includes(detail, S_not_found) THEN S_not_available
        ELSE Trim(S_systemctl_paren \o scopeLabel \o S_unavailable
                  \o StrOr(detail, S_unknown_error))

\* the message of the error assertSystemdAvailable throws
AssertMessage(scopeLabel, res) ==
    LET detail == StrOr(res.stderr, res.stdout)
    IN  IF Includes(ToLowerCase(detail), S_not_found) THEN S_not_available
        ELSE Trim(S_systemctl_paren \o scopeLabel \o S_unavailable
                  \o StrOr(detail, S_unknown_error))

\* --------------------------------------------------- manager actions

\* outcomes of daemon-reload, enable, restart, stop, disable
ActionResults ==
    { Res(0, <<>>, <<>>), Res(1, T_Denied, T_Boom), Res(1, <<>>, T_Boom) }

NoUnit ==
    <<>>

\* one execSystemctl call and what it resolved to: the scope flag, the verb,
\* the unit it names, the result
Invocation(scope, cmd, unit, res) ==
    [scope |-> scope, cmd |-> cmd, unit |-> unit, res |-> res]

\* one call of node:fs and whether it succeeded (code 0) or threw (code 1)
FsCall(cmd, path, ok) ==
    [scope |-> <<>>, cmd |-> cmd, unit |-> path,
     res |-> Res(IF ok THEN 0 ELSE 1, <<>>, <<>>)]

FsCmds ==
    {"fs.mkdir", "fs.access", "fs.copyFile", "fs.writeFile", "fs.unlink"}

\* the message of a failed manager action
ActionMessage(prefix, res) ==
    Trim(prefix \o StrOr(res.stderr, res.stdout))

\* the unit names of earlier naming schemes, in the order they are visited
LEGACY_GATEWAY_SYSTEMD_SERVICE_NAMES ==
    <<S_clawdbot_gateway, S_moltbot_gateway>>

\* ------------------------------------------------------- file system

NoFile ==
    <<"ENOENT">>

Paths ==
    {resolveSystemdUnitPath(e) : e \in Envs}
    \cup {BackupPath(resolveSystemdUnitPath(e)) : e \in Envs}
    \cup {resolveSystemdUnitPathForName(NoEnv, LEGACY_GATEWAY_SYSTEMD_SERVICE_NAMES[i]) :
             i \in 1..Len(LEGACY_GATEWAY_SYSTEMD_SERVICE_NAMES)}

\* ------------------------------------------------------------- bounds

\* concurrent direct callers of resolveSystemctlScopeArgs
NumCallers ==
    2

\* the probe counter saturates here
MaxProbes ==
    3

Main ==
    0

Callers ==
    1..NumCallers

\* the calls the sequential caller makes: operation, env, install's arguments
Inputs ==
    {[op |-> "resolve", env |-> NoEnv, cfg |-> NoCfg]}
    \cup {[op |-> o, env |-> e, cfg |-> NoCfg] :
             o \in {"uninstall", "readRuntime"}, e \in Envs}
    \cup {[op |-> o, env |-> e, cfg |-> NoCfg] :
             o \in {"stop", "isEnabled"}, e \in Envs}
    \cup {[op |-> "restart", env |-> NoEnv, cfg |-> NoCfg]}
    \cup {[op |-> "install", env |-> NoEnv, cfg |-> CfgNode],
          [op |-> "install", env |-> NoEnv, cfg |-> CfgApp],
          [op |-> "install", env |-> CustomEnv, cfg |-> CfgNode]}

\* -------------------------------------------------------------- state

VARIABLES
    cachedScopeArgs,  \* _cachedScopeArgs
    scopeEnv,         \* process.env.OPENCLAW_SYSTEMD_SCOPE
    rpc,              \* per caller: position inside resolveSystemctlScopeArgs
    rret,             \* per caller: the value the call returned
    rwhy,             \* per caller: what the call decided from
    probes,           \* auto-detect probes issued so far
    firstDecision,    \* the first decision any call returned
    files,            \* path -> content of the file, or NoFile
    op,               \* the operation the sequential caller is running
    pc,               \* its position
    env,              \* its env argument
    cfg,              \* install's command configuration
    scopeLabel,       \* assertSystemdAvailable's scopeLabel
    backedUp,         \* install's backedUp
    events,           \* the execSystemctl and fs calls the operation has made
    out,              \* the lines it has written to stdout
    err,              \* the message of the error thrown, <<>> when none
    runtime,          \* readSystemdServiceRuntime's result
    preUnit,          \* the unit file's content just before install wrote it
    preBak,           \* the backup file's content when install began
    lastInstall,      \* the previous operation, when it was an install that returned
    call,             \* the function being applied and its arguments
    ret,              \* the value it returned
    systemctlAvailable, \* the legacy operations' systemctlAvailable
    results,          \* findLegacySystemdUnits' results, uninstallLegacy's units
    idx,              \* the position of the loop over the names or the units
    exists            \* findLegacySystemdUnits' exists for the current name

scopeVars ==
    <<cachedScopeArgs, scopeEnv, rpc, rret, rwhy, probes, firstDecision>>

\* the application of a function that keeps no state of its own
\* the locals of findLegacySystemdUnits and uninstallLegacySystemdUnits
legacyVars ==
    <<systemctlAvailable, results, idx, exists>>

extraVars ==
    <<call, ret, legacyVars>>

\* the state of the operation the sequential caller runs
opVars ==
    <<files, op, pc, env, cfg, scopeLabel, backedUp, events, out, err, runtime,
      preUnit, preBak, lastInstall>>

mainVars ==
    <<opVars, extraVars>>

vars ==
    <<scopeVars, mainVars>>

NoRes ==
    Res(0 - 1, <<>>, <<>>)

\* a call that has decided nothing yet
NoWhy ==
    [cached |-> FALSE, override |-> Undefined, res |-> NoRes]

NoLast ==
    [env |-> NoEnv, cfg |-> NoCfg, unit |-> NoFile]

\* no function is being applied
NoCall ==
    [fn |-> "none"]

\* nothing has been returned yet
NoRet ==
    [done |-> FALSE]

Returned(value) ==
    [done |-> TRUE, value |-> value]

\* no legacy operation has run
NoLegacy ==
    /\ systemctlAvailable = FALSE
    /\ results = <<>>
    /\ idx = 1
    /\ exists = FALSE

Init ==
    /\ cachedScopeArgs = Undefined
    /\ scopeEnv \in ScopeOverrides
    /\ rpc = [c \in {Main} \cup Callers |-> "idle"]
    /\ rret = [c \in {Main} \cup Callers |-> Undefined]
    /\ rwhy = [c \in {Main} \cup Callers |-> NoWhy]
    /\ probes = 0
    /\ firstDecision = Undefined
    /\ \E pre \in {NoFile, F_Foreign} :
          files = [p \in Paths |->
                     IF p = resolveSystemdUnitPath(NoEnv) THEN pre ELSE NoFile]
    /\ op = "none"
    /\ pc = "idle"
    /\ env = NoEnv
    /\ cfg = NoCfg
    /\ scopeLabel = <<>>
    /\ backedUp = FALSE
    /\ events = <<>>
    /\ out = <<>>
    /\ err = <<>>
    /\ runtime = NoRuntime
    /\ preUnit = NoFile
    /\ preBak = NoFile
    /\ lastInstall = NoLast
    /\ call = NoCall
    /\ ret = NoRet
    /\ NoLegacy

\* ------------------------------------------------- unit descriptor decoder

\* String.prototype.startsWith
StartsWith(s, prefix) ==
    Len(prefix) <= Len(s) /\ SubSeq(s, 1, Len(prefix)) = prefix

\* tokens of the rest of an ExecStart value: double quotes group, a backslash
\* takes the next character literally, whitespace outside quotes separates;
\* `started` tells that the current token has begun, if only with a quote
RECURSIVE TokensFrom(_, _, _, _)
TokensFrom(s, current, inQuotes, started) ==
    IF s = <<>> THEN (IF started THEN <<current>> ELSE <<>>)
    ELSE IF Head(s) = "\\"
    THEN (IF Len(s) >= 2
          THEN TokensFrom(SubSeq(s, 3, Len(s)), Append(current, s[2]), inQuotes, TRUE)
          ELSE <<Append(current, "\\")>>)
    ELSE IF Head(s) = "\""
    THEN TokensFrom(Tail(s), current, ~inQuotes, TRUE)
    ELSE IF ~inQuotes /\ Head(s) \in WS
    THEN (IF started THEN <<current>> ELSE <<>>)
         \o TokensFrom(Tail(s), <<>>, FALSE, FALSE)
    ELSE TokensFrom(Tail(s), Append(current, Head(s)), inQuotes, TRUE)

parseSystemdExecStart(value) ==
    TokensFrom(value, <<>>, FALSE, FALSE)

\* KEY=VALUE, the value unquoted when it is written in quotes; {} is null
parseSystemdEnvAssignment(raw) ==
    LET eq == IndexOf(raw, "=")
        value == SubSeq(raw, eq + 1, Len(raw))
    IN  IF eq <= 1 THEN {}
        ELSE {<< SubSeq(raw, 1, eq - 1),
                 IF value # <<>> /\ Head(value) = "\""
                 THEN JoinWith(parseSystemdExecStart(value), <<" ">>)
                 ELSE value >>}

\* environment[key] = value on a record kept as pairs in insertion order
SetEnvironment(environment, key, value) ==
    IF \E i \in 1..Len(environment) : environment[i][1] = key
    THEN [i \in 1..Len(environment) |->
             IF environment[i][1] = key THEN <<key, value>> ELSE environment[i]]
    ELSE Append(environment, <<key, value>>)

\* ReadUnitLine taking no notice of Environment= lines
ReadUnitLineNoEnvironment(acc, rawLine) ==
    LET line == Trim(rawLine)
    IN  IF line = <<>> \/ StartsWith(line, <<"#">>) THEN acc
        ELSE IF StartsWith(line, S_ExecStart_eq)
        THEN [acc EXCEPT !.execStart =
                 Trim(SubSeq(line, Len(S_ExecStart_eq) + 1, Len(line)))]
        ELSE IF StartsWith(line, S_WorkingDirectory_eq)
        THEN [acc EXCEPT !.workingDirectory =
                 Trim(SubSeq(line, Len(S_WorkingDirectory_eq) + 1, Len(line)))]
        ELSE acc

\* one pass of the loop over the lines of the unit file
ReadUnitLine(acc, rawLine) ==
    LET line == Trim(rawLine)
    IN  IF line = <<>> \/ StartsWith(line, <<"#">>) THEN acc
        ELSE IF StartsWith(line, S_ExecStart_eq)
        THEN [acc EXCEPT !.execStart =
                 Trim(SubSeq(line, Len(S_ExecStart_eq) + 1, Len(line)))]
        ELSE IF StartsWith(line, S_WorkingDirectory_eq)
        THEN [acc EXCEPT !.workingDirectory =
                 Trim(SubSeq(line, Len(S_WorkingDirectory_eq) + 1, Len(line)))]
        ELSE IF StartsWith(line, S_Environment_eq)
        THEN LET raw == Trim(SubSeq(line, Len(S_Environment_eq) + 1, Len(line)))
                 parsed == parseSystemdEnvAssignment(raw)
             IN  IF parsed = {} THEN acc
                 ELSE LET pair == CHOOSE x \in parsed : TRUE
                      IN  [acc EXCEPT !.environment =
                              SetEnvironment(acc.environment, pair[1], pair[2])]
        ELSE acc

RECURSIVE ReadUnitLines(_, _)
ReadUnitLines(acc, lines) ==
    IF lines = <<>> THEN acc
    ELSE ReadUnitLines(ReadUnitLine(acc, Head(lines)), Tail(lines))

\* readSystemdServiceExecStart without its check of an empty execStart
readSystemdServiceExecStartUnchecked(e) ==
    LET unitPath == resolveSystemdUnitPath(e)
        content == files[unitPath]
        acc == ReadUnitLines([execStart |-> <<>>, workingDirectory |-> <<>>,
                              environment |-> <<>>], SplitOn(content, "\n"))
    IN  IF content = NoFile THEN {}
        ELSE {[programArguments |-> parseSystemdExecStart(acc.execStart),
               workingDirectory |-> IF acc.workingDirectory # <<>>
                                    THEN acc.workingDirectory ELSE Undefined,
               environment |-> acc.environment,
               sourcePath |-> unitPath]}

\* the config read back from the unit file of env: {} is null, {config} a
\* config; a file that cannot be read makes fs.readFile throw into the catch
readSystemdServiceExecStart(e) ==
    LET unitPath == resolveSystemdUnitPath(e)
        content == files[unitPath]
        acc == ReadUnitLines([execStart |-> <<>>, workingDirectory |-> <<>>,
                              environment |-> <<>>], SplitOn(content, "\n"))
    IN  IF content = NoFile THEN {}
        ELSE IF acc.execStart = <<>> THEN {}
        ELSE {[programArguments |-> parseSystemdExecStart(acc.execStart),
               workingDirectory |-> IF acc.workingDirectory # <<>>
                                    THEN acc.workingDirectory ELSE Undefined,
               environment |-> acc.environment,
               sourcePath |-> unitPath]}

\* ------------------------------------------- resolveSystemctlScopeArgs

\* CacheHit when the cache is never consulted
CacheHitNever ==
    FALSE

\* `_cachedScopeArgs !== undefined`
CacheHit ==
    cachedScopeArgs # Undefined

\* the `return _cachedScopeArgs` statements
ResolveReturn(c, value, why) ==
    /\ rpc' = [rpc EXCEPT ![c] = "done"]
    /\ rret' = [rret EXCEPT ![c] = value]
    /\ rwhy' = [rwhy EXCEPT ![c] = why]
    /\ firstDecision' = IF firstDecision = Undefined THEN value ELSE firstDecision

\* resolveSystemctlScopeArgs up to its first await
ResolveEnter(c) ==
    /\ rpc[c] = "call"
    /\ UNCHANGED <<scopeEnv, mainVars>>
    /\ IF CacheHit
       THEN /\ ResolveReturn(c, cachedScopeArgs, [NoWhy EXCEPT !.cached = TRUE])
            /\ UNCHANGED <<cachedScopeArgs, probes>>
       ELSE IF Explicit(scopeEnv) = S_system
       THEN /\ cachedScopeArgs' = SystemArgs
            /\ ResolveReturn(c, SystemArgs, [NoWhy EXCEPT !.override = scopeEnv])
            /\ UNCHANGED probes
       ELSE IF Explicit(scopeEnv) = S_user
       THEN /\ cachedScopeArgs' = UserArgs
            /\ ResolveReturn(c, UserArgs, [NoWhy EXCEPT !.override = scopeEnv])
            /\ UNCHANGED probes
       ELSE /\ rpc' = [rpc EXCEPT ![c] = "probing"]
            /\ rwhy' = [rwhy EXCEPT ![c] = [NoWhy EXCEPT !.override = scopeEnv]]
            /\ probes' = IF probes < MaxProbes THEN probes + 1 ELSE probes
            /\ UNCHANGED <<cachedScopeArgs, rret, firstDecision>>

\* the probe exits: the decision is stored and returned
ProbeDone(c) ==
    /\ rpc[c] = "probing"
    /\ \E res \in ProbeResults :
          /\ cachedScopeArgs' = ProbeDecision(res)
          /\ ResolveReturn(c, ProbeDecision(res), [rwhy[c] EXCEPT !.res = res])
    /\ UNCHANGED <<scopeEnv, probes, mainVars>>

\* a direct concurrent caller of the exported resolveSystemctlScopeArgs
CallerStart(c) ==
    /\ rpc[c] = "idle"
    /\ rpc' = [rpc EXCEPT ![c] = "call"]
    /\ UNCHANGED <<cachedScopeArgs, scopeEnv, rret, rwhy, probes, firstDecision,
                   mainVars>>

CallerReturn(c) ==
    /\ rpc[c] = "done"
    /\ rpc' = [rpc EXCEPT ![c] = "idle"]
    /\ rret' = [rret EXCEPT ![c] = Undefined]
    /\ rwhy' = [rwhy EXCEPT ![c] = NoWhy]
    /\ UNCHANGED <<cachedScopeArgs, scopeEnv, probes, firstDecision, mainVars>>

\* other code of the process assigns the override variable between operations
SetScopeEnv ==
    /\ pc = "idle"
    /\ scopeEnv' \in ScopeOverrides \ {scopeEnv}
    /\ UNCHANGED <<cachedScopeArgs, rpc, rret, rwhy, probes, firstDecision, mainVars>>

\* ------------------------------------------------ the sequential caller

\* scopedSystemctl begins: its resolveSystemctlScopeArgs call
CallScoped ==
    /\ rpc' = [rpc EXCEPT ![Main] = "call"]
    /\ rret' = [rret EXCEPT ![Main] = Undefined]
    /\ rwhy' = [rwhy EXCEPT ![Main] = NoWhy]

\* the caller goes on without a manager call
NoScoped ==
    /\ rpc' = [rpc EXCEPT ![Main] = "idle"]
    /\ rret' = [rret EXCEPT ![Main] = Undefined]
    /\ rwhy' = [rwhy EXCEPT ![Main] = NoWhy]

\* scopedSystemctl's execSystemctl([...scope, ...args]) resolves to res
Exec(cmd, unit, res) ==
    events' = Append(events, Invocation(rret[Main], cmd, unit, res))

\* an operation is invoked
Start ==
    /\ pc = "idle"
    /\ \E inp \in Inputs :
          /\ op' = inp.op
          /\ env' = inp.env
          /\ cfg' = inp.cfg
          /\ pc' = IF inp.op = "resolve" THEN "resolve_wait" ELSE "assert_scope"
    /\ CallScoped
    /\ preBak' = NoFile
    /\ UNCHANGED <<cachedScopeArgs, scopeEnv, probes, firstDecision, files, scopeLabel,
                   backedUp, events, out, err, runtime, preUnit, lastInstall, extraVars>>

\* a direct call of resolveSystemctlScopeArgs returns
ResolveDirect ==
    /\ pc = "resolve_wait" /\ rpc[Main] = "done"
    /\ pc' = "returned"
    /\ rpc' = [rpc EXCEPT ![Main] = "idle"]
    /\ UNCHANGED <<cachedScopeArgs, scopeEnv, rret, rwhy, probes, firstDecision, files,
                   op, env, cfg, scopeLabel, backedUp, events, out, err, runtime,
                   preUnit, preBak, lastInstall, extraVars>>

\* assertSystemdAvailable: the scope label, then scopedSystemctl(["status"])
AssertStatus ==
    /\ pc = "assert_scope" /\ rpc[Main] = "done"
    /\ scopeLabel' = ScopeLabel(rret[Main])
    /\ CallScoped
    /\ pc' = "assert_status"
    /\ UNCHANGED <<cachedScopeArgs, scopeEnv, probes, firstDecision, files, op, env, cfg,
                   backedUp, events, out, err, runtime, preUnit, preBak, lastInstall,
                   extraVars>>

\* assertSystemdAvailable: the status probe exits
AssertCheck ==
    /\ pc = "assert_status" /\ rpc[Main] = "done"
    /\ NoScoped
    /\ \E res \in StatusResults :
          /\ Exec("status", NoUnit, res)
          /\ IF res.code = 0
             THEN pc' = "body" /\ err' = err
             ELSE pc' = "assert_threw" /\ err' = AssertMessage(scopeLabel, res)
    /\ UNCHANGED <<cachedScopeArgs, scopeEnv, probes, firstDecision, files, op, env, cfg,
                   scopeLabel, backedUp, out, runtime, preUnit, preBak, lastInstall,
                   extraVars>>

\* Propagate catching the assertion's error and going on with the operation
PropagateSwallow ==
    /\ pc = "assert_threw" /\ op # "readRuntime"
    /\ pc' = "body"
    /\ UNCHANGED <<scopeVars, files, op, env, cfg, scopeLabel, backedUp, events, out,
                   err, runtime, preUnit, preBak, lastInstall, extraVars>>

\* install, uninstall: the assertion's error propagates to the caller
Propagate ==
    /\ pc = "assert_threw" /\ op # "readRuntime"
    /\ pc' = "thrown"
    /\ UNCHANGED <<scopeVars, files, op, env, cfg, scopeLabel, backedUp, events, out,
                   err, runtime, preUnit, preBak, lastInstall, extraVars>>

\* --------------------------------------------------- installSystemdService

\* InstallBackup keeping a backup that is already there
InstallBackupKeepFirst ==
    /\ pc = "body" /\ op = "install"
    /\ LET unitPath == resolveSystemdUnitPath(env)
       IN  /\ preBak' = files[BackupPath(unitPath)]
           /\ IF files[unitPath] # NoFile
              THEN /\ files' = IF files[BackupPath(unitPath)] = NoFile
                               THEN [files EXCEPT ![BackupPath(unitPath)] = files[unitPath]]
                               ELSE files
                   /\ backedUp' = TRUE
                   /\ events' = events \o << FsCall("fs.mkdir", UnitDir(env), TRUE),
                                              FsCall("fs.access", unitPath, TRUE),
                                              FsCall("fs.copyFile", unitPath, TRUE) >>
              ELSE /\ files' = files
                   /\ backedUp' = FALSE
                   /\ events' = events \o << FsCall("fs.mkdir", UnitDir(env), TRUE),
                                              FsCall("fs.access", unitPath, FALSE) >>
    /\ pc' = "inst_write"
    /\ UNCHANGED <<scopeVars, op, env, cfg, scopeLabel, out, err, runtime, preUnit,
                   lastInstall, extraVars>>

\* mkdir, then the backup of an existing unit file
InstallBackup ==
    /\ pc = "body" /\ op = "install"
    /\ LET unitPath == resolveSystemdUnitPath(env)
       IN  /\ preBak' = files[BackupPath(unitPath)]
           /\ IF files[unitPath] # NoFile
              THEN /\ files' = [files EXCEPT ![BackupPath(unitPath)] = files[unitPath]]
                   /\ backedUp' = TRUE
                   /\ events' = events \o << FsCall("fs.mkdir", UnitDir(env), TRUE),
                                              FsCall("fs.access", unitPath, TRUE),
                                              FsCall("fs.copyFile", unitPath, TRUE) >>
              ELSE /\ files' = files
                   /\ backedUp' = FALSE
                   /\ events' = events \o << FsCall("fs.mkdir", UnitDir(env), TRUE),
                                              FsCall("fs.access", unitPath, FALSE) >>
    /\ pc' = "inst_write"
    /\ UNCHANGED <<scopeVars, op, env, cfg, scopeLabel, out, err, runtime, preUnit,
                   lastInstall, extraVars>>

\* InstallWrite appending to the unit file instead of replacing its content
InstallWriteAppend ==
    /\ pc = "inst_write"
    /\ LET unitPath == resolveSystemdUnitPath(env)
           unit == buildSystemdUnit(resolveGatewayServiceDescription(env, cfg),
                                    cfg.programArguments, cfg.workingDirectory,
                                    cfg.environment)
       IN  /\ preUnit' = files[unitPath]
           /\ files' = [files EXCEPT ![unitPath] =
                           IF files[unitPath] = NoFile THEN unit
                           ELSE files[unitPath] \o unit]
           /\ events' = Append(events, FsCall("fs.writeFile", unitPath, TRUE))
    /\ CallScoped
    /\ pc' = "inst_reload"
    /\ UNCHANGED <<cachedScopeArgs, scopeEnv, probes, firstDecision, op, env, cfg,
                   scopeLabel, backedUp, out, err, runtime, preBak, lastInstall,
                   extraVars>>

\* the unit is built and written; scopedSystemctl(["daemon-reload"]) begins
InstallWrite ==
    /\ pc = "inst_write"
    /\ LET unitPath == resolveSystemdUnitPath(env)
           unit == buildSystemdUnit(resolveGatewayServiceDescription(env, cfg),
                                    cfg.programArguments, cfg.workingDirectory,
                                    cfg.environment)
       IN  /\ preUnit' = files[unitPath]
           /\ files' = [files EXCEPT ![unitPath] = unit]
           /\ events' = Append(events, FsCall("fs.writeFile", unitPath, TRUE))
    /\ CallScoped
    /\ pc' = "inst_reload"
    /\ UNCHANGED <<cachedScopeArgs, scopeEnv, probes, firstDecision, op, env, cfg,
                   scopeLabel, backedUp, out, err, runtime, preBak, lastInstall,
                   extraVars>>

\* the unit name install hands to enable and restart
InstallUnitName(e) ==
    resolveGatewaySystemdServiceName(e.OPENCLAW_PROFILE) \o S_dot_service

\* InstallStep going on to the next call whatever the exit code
InstallStepNoAbort(at, cmd, unit, prefix, next) ==
    /\ pc = at /\ rpc[Main] = "done"
    /\ \E res \in ActionResults : Exec(cmd, unit, res)
    /\ err' = err
    /\ pc' = next
    /\ CallScoped
    /\ UNCHANGED <<cachedScopeArgs, scopeEnv, probes, firstDecision, files, op, env, cfg,
                   scopeLabel, backedUp, out, runtime, preUnit, preBak, lastInstall,
                   extraVars>>

\* one step of install's reload, enable, restart sequence: the call at `at`
\* exits; a failure throws, a success begins the call that leads to `next`
InstallStep(at, cmd, unit, prefix, next) ==
    /\ pc = at /\ rpc[Main] = "done"
    /\ \E res \in ActionResults :
          /\ Exec(cmd, unit, res)
          /\ IF res.code # 0
             THEN /\ err' = ActionMessage(prefix, res)
                  /\ pc' = "thrown"
                  /\ NoScoped
             ELSE /\ err' = err
                  /\ pc' = next
                  /\ CallScoped
    /\ UNCHANGED <<cachedScopeArgs, scopeEnv, probes, firstDecision, files, op, env, cfg,
                   scopeLabel, backedUp, out, runtime, preUnit, preBak, lastInstall,
                   extraVars>>

InstallReload ==
    InstallStep("inst_reload", "daemon-reload", NoUnit, S_reload_failed, "inst_enable")

InstallEnable ==
    InstallStep("inst_enable", "enable", InstallUnitName(env), S_enable_failed,
                "inst_restart")

\* the lines install writes once restart has succeeded
InstallSummary(unitPath, withBackup) ==
    << [label |-> "Installed systemd service", value |-> unitPath] >>
    \o (IF withBackup
        THEN << [label |-> "Previous unit backed up to", value |-> BackupPath(unitPath)] >>
        ELSE <<>>)

\* InstallRestart putting the previous unit file back when restart fails
InstallRestartRollback ==
    /\ pc = "inst_restart" /\ rpc[Main] = "done"
    /\ NoScoped
    /\ \E res \in ActionResults :
          /\ Exec("restart", InstallUnitName(env), res)
          /\ IF res.code # 0
             THEN /\ err' = ActionMessage(S_restart_failed, res)
                  /\ pc' = "thrown"
                  /\ out' = out
                  /\ files' = [files EXCEPT ![resolveSystemdUnitPath(env)] = preUnit]
             ELSE /\ err' = err
                  /\ pc' = "returned"
                  /\ out' = out \o InstallSummary(resolveSystemdUnitPath(env), backedUp)
                  /\ files' = files
    /\ UNCHANGED <<cachedScopeArgs, scopeEnv, probes, firstDecision, op, env, cfg,
                   scopeLabel, backedUp, runtime, preUnit, preBak, lastInstall,
                   extraVars>>

\* restart exits: a failure throws, a success writes the summary and returns
InstallRestart ==
    /\ pc = "inst_restart" /\ rpc[Main] = "done"
    /\ NoScoped
    /\ \E res \in ActionResults :
          /\ Exec("restart", InstallUnitName(env), res)
          /\ IF res.code # 0
             THEN /\ err' = ActionMessage(S_restart_failed, res)
                  /\ pc' = "thrown"
                  /\ out' = out
             ELSE /\ err' = err
                  /\ pc' = "returned"
                  /\ out' = out \o InstallSummary(resolveSystemdUnitPath(env), backedUp)
    /\ UNCHANGED <<cachedScopeArgs, scopeEnv, probes, firstDecision, files, op, env, cfg,
                   scopeLabel, backedUp, runtime, preUnit, preBak, lastInstall,
                   extraVars>>

\* ------------------------------------------------- uninstallSystemdService

\* scopedSystemctl(["disable", "--now", unitName]) begins
UninstallBegin ==
    /\ pc = "body" /\ op = "uninstall"
    /\ CallScoped
    /\ pc' = "uninst_disable"
    /\ UNCHANGED <<cachedScopeArgs, scopeEnv, probes, firstDecision, files, op, env, cfg,
                   scopeLabel, backedUp, events, out, err, runtime, preUnit, preBak,
                   lastInstall, extraVars>>

\* UninstallDisable treating a non-zero exit as fatal
UninstallDisableStrict ==
    /\ pc = "uninst_disable" /\ rpc[Main] = "done"
    /\ NoScoped
    /\ \E res \in ActionResults :
          /\ Exec("disable --now", InstallUnitName(env), res)
          /\ IF res.code # 0
             THEN pc' = "thrown" /\ err' = ActionMessage(S_stop_failed, res)
             ELSE pc' = "uninst_unlink" /\ err' = err
    /\ UNCHANGED <<cachedScopeArgs, scopeEnv, probes, firstDecision, files, op, env, cfg,
                   scopeLabel, backedUp, out, runtime, preUnit, preBak, lastInstall,
                   extraVars>>

\* disable --now exits: its exit code is not looked at
UninstallDisable ==
    /\ pc = "uninst_disable" /\ rpc[Main] = "done"
    /\ NoScoped
    /\ \E res \in ActionResults : Exec("disable --now", InstallUnitName(env), res)
    /\ pc' = "uninst_unlink"
    /\ UNCHANGED <<cachedScopeArgs, scopeEnv, probes, firstDecision, files, op, env, cfg,
                   scopeLabel, backedUp, out, err, runtime, preUnit, preBak, lastInstall,
                   extraVars>>

\* the line uninstall writes
UninstallLine(unitPath, existed) ==
    IF existed
    THEN [label |-> "Removed systemd service", value |-> unitPath]
    ELSE [label |-> "Systemd service not found at", value |-> unitPath]

\* fs.unlink of the unit file, and the line reporting it
UninstallUnlink ==
    /\ pc = "uninst_unlink"
    /\ LET unitPath == resolveSystemdUnitPath(env)
       IN  /\ preUnit' = files[unitPath]
           /\ files' = [files EXCEPT ![unitPath] = NoFile]
           /\ events' = Append(events,
                               FsCall("fs.unlink", unitPath, files[unitPath] # NoFile))
           /\ out' = Append(out, UninstallLine(unitPath, files[unitPath] # NoFile))
    /\ pc' = "returned"
    /\ UNCHANGED <<scopeVars, op, env, cfg, scopeLabel, backedUp, err, runtime, preBak,
                   lastInstall, extraVars>>

\* ----------------------------------------------- readSystemdServiceRuntime

\* ReadRuntimeCatch letting the assertion's error escape
ReadRuntimeRethrow ==
    /\ pc = "assert_threw" /\ op = "readRuntime"
    /\ pc' = "thrown"
    /\ UNCHANGED <<scopeVars, files, op, env, cfg, scopeLabel, backedUp, events, out,
                   err, runtime, preUnit, preBak, lastInstall, extraVars>>

\* the assertion threw: the error becomes a status value
ReadRuntimeCatch ==
    /\ pc = "assert_threw" /\ op = "readRuntime"
    /\ runtime' = RuntimeOfUnavailable(err)
    /\ err' = <<>>
    /\ pc' = "returned"
    /\ UNCHANGED <<scopeVars, files, op, env, cfg, scopeLabel, backedUp, events, out,
                   preUnit, preBak, lastInstall, extraVars>>

\* scopedSystemctl(["show", unitName, ...]) begins
ReadRuntimeBegin ==
    /\ pc = "body" /\ op = "readRuntime"
    /\ CallScoped
    /\ pc' = "show"
    /\ UNCHANGED <<cachedScopeArgs, scopeEnv, probes, firstDecision, files, op, env, cfg,
                   scopeLabel, backedUp, events, out, err, runtime, preUnit, preBak,
                   lastInstall, extraVars>>

\* the show query exits and the result is built
ReadRuntimeShow ==
    /\ pc = "show" /\ rpc[Main] = "done"
    /\ NoScoped
    /\ \E res \in ShowResults :
          /\ Exec("show", resolveSystemdServiceName(env) \o S_dot_service, res)
          /\ runtime' = IF res.code # 0 THEN RuntimeOfFailedShow(res)
                        ELSE RuntimeOfShow(res)
    /\ pc' = "returned"
    /\ UNCHANGED <<cachedScopeArgs, scopeEnv, probes, firstDecision, files, op, env, cfg,
                   scopeLabel, backedUp, out, err, preUnit, preBak, lastInstall,
                   extraVars>>

\* -------------------------------- stopSystemdService, restartSystemdService

\* the label of the line the action writes
ActionLabel(action) ==
    IF action = "stop" THEN "Stopped systemd service" ELSE "Restarted systemd service"

\* runSystemdServiceAction: scopedSystemctl([action, unitName]) begins
RunActionBegin ==
    /\ pc = "body" /\ op \in {"stop", "restart"}
    /\ CallScoped
    /\ pc' = "action"
    /\ UNCHANGED <<cachedScopeArgs, scopeEnv, probes, firstDecision, files, op, env, cfg,
                   scopeLabel, backedUp, events, out, err, runtime, preUnit, preBak,
                   lastInstall, extraVars>>

\* RunActionDone writing its line whatever the exit code
RunActionDoneLenient ==
    /\ pc = "action" /\ rpc[Main] = "done"
    /\ NoScoped
    /\ LET unitName == resolveSystemdServiceName(env) \o S_dot_service
       IN  /\ \E res \in ActionResults : Exec(op, unitName, res)
           /\ pc' = "returned"
           /\ out' = Append(out, [label |-> ActionLabel(op), value |-> unitName])
    /\ UNCHANGED <<cachedScopeArgs, scopeEnv, probes, firstDecision, files, op, env, cfg,
                   scopeLabel, backedUp, err, runtime, preUnit, preBak, lastInstall,
                   extraVars>>

\* the action exits: an error for a non-zero exit, a line for exit 0
RunActionDone ==
    /\ pc = "action" /\ rpc[Main] = "done"
    /\ NoScoped
    /\ LET unitName == resolveSystemdServiceName(env) \o S_dot_service
       IN  \E res \in ActionResults :
              /\ Exec(op, unitName, res)
              /\ IF res.code # 0
                 THEN /\ pc' = "thrown"
                      /\ err' = ActionMessage(IF op = "stop" THEN S_stop_failed
                                              ELSE S_restart_failed, res)
                      /\ out' = out
                 ELSE /\ pc' = "returned"
                      /\ err' = err
                      /\ out' = Append(out, [label |-> ActionLabel(op),
                                             value |-> unitName])
    /\ UNCHANGED <<cachedScopeArgs, scopeEnv, probes, firstDecision, files, op, env, cfg,
                   scopeLabel, backedUp, runtime, preUnit, preBak, lastInstall,
                   extraVars>>

\* ------------------------------------------------- isSystemdServiceEnabled

\* what `systemctl is-enabled` may exit with and print
EnabledResults ==
    {Res(0, <<>>, T_Enabled), Res(0, <<>>, T_Disabled), Res(0, <<>>, <<>>),
     Res(1, <<>>, T_Disabled), Res(1, <<>>, T_Enabled), Res(1, T_Denied, <<>>)}

\* scopedSystemctl(["is-enabled", unitName]) begins
IsEnabledBegin ==
    /\ pc = "body" /\ op = "isEnabled"
    /\ CallScoped
    /\ pc' = "is_enabled"
    /\ UNCHANGED <<cachedScopeArgs, scopeEnv, probes, firstDecision, files, op, env, cfg,
                   scopeLabel, backedUp, events, out, err, runtime, preUnit, preBak,
                   lastInstall, extraVars>>

\* IsEnabledQuery reading the state the query printed
IsEnabledQueryByText ==
    /\ pc = "is_enabled" /\ rpc[Main] = "done"
    /\ NoScoped
    /\ \E res \in EnabledResults :
          /\ Exec("is-enabled", resolveSystemdServiceName(env) \o S_dot_service, res)
          /\ ret' = Returned(res.stdout = T_Enabled)
    /\ pc' = "returned"
    /\ UNCHANGED <<cachedScopeArgs, scopeEnv, probes, firstDecision, files, op, env, cfg,
                   scopeLabel, backedUp, out, err, runtime, preUnit, preBak, lastInstall,
                   call, legacyVars>>

\* the query exits: the result is whether its exit code was 0
IsEnabledQuery ==
    /\ pc = "is_enabled" /\ rpc[Main] = "done"
    /\ NoScoped
    /\ \E res \in EnabledResults :
          /\ Exec("is-enabled", resolveSystemdServiceName(env) \o S_dot_service, res)
          /\ ret' = Returned(res.code = 0)
    /\ pc' = "returned"
    /\ UNCHANGED <<cachedScopeArgs, scopeEnv, probes, firstDecision, files, op, env, cfg,
                   scopeLabel, backedUp, out, err, runtime, preUnit, preBak, lastInstall,
                   call, legacyVars>>

\* ------------------- findLegacySystemdUnits, uninstallLegacySystemdUnits

\* IsSystemctlAvailable taking every failed status probe as unavailable
IsSystemctlAvailableStrict(res) ==
    res.code = 0

\* isSystemctlAvailable's answer for the exit of its status probe
IsSystemctlAvailable(res) ==
    \/ res.code = 0
    \/ ~Includes(ToLowerCase(StrOr(res.stderr, res.stdout)), S_not_found)

\* what the status probe of the legacy operations may exit with
LegacyStatusResults ==
    { Res(0, <<>>, <<>>), Res(1, T_CmdNotFound, <<>>),
      Res(1, T_FailedToConnect, <<>>), Res(1, <<>>, <<>>) }

\* what is-enabled may exit with for a legacy unit
LegacyEnabledResults ==
    { Res(0, <<>>, T_Enabled), Res(1, <<>>, T_Disabled) }

\* what disable --now may exit with for a legacy unit
LegacyDisableResults ==
    { Res(0, <<>>, <<>>), Res(1, T_Denied, <<>>) }

LegacyNames ==
    LEGACY_GATEWAY_SYSTEMD_SERVICE_NAMES

LegacyPaths ==
    {resolveSystemdUnitPathForName(NoEnv, LegacyNames[i]) : i \in 1..Len(LegacyNames)}

LegacyUnit(name, unitPath, enabled, exist) ==
    [name |-> name, unitPath |-> unitPath, enabled |-> enabled, exists |-> exist]

\* a legacy operation is invoked; its first step is isSystemctlAvailable
LegacyStart ==
    /\ pc = "idle"
    /\ op' \in {"findLegacy", "uninstallLegacy"}
    /\ pc' = "avail_wait"
    /\ CallScoped
    /\ UNCHANGED <<cachedScopeArgs, scopeEnv, probes, firstDecision, files, env, cfg,
                   scopeLabel, backedUp, events, out, err, runtime, preUnit, preBak,
                   lastInstall, extraVars>>

\* isSystemctlAvailable: the status probe exits; the loop that follows begins
LegacyProbe ==
    /\ pc \in {"avail_wait", "avail2_wait"} /\ rpc[Main] = "done"
    /\ NoScoped
    /\ \E res \in LegacyStatusResults :
          /\ Exec("status", NoUnit, res)
          /\ systemctlAvailable' = IsSystemctlAvailable(res)
    /\ pc' = IF pc = "avail_wait" THEN "find_access" ELSE "remove"
    /\ idx' = 1
    /\ UNCHANGED <<cachedScopeArgs, scopeEnv, probes, firstDecision, files, op, env, cfg,
                   scopeLabel, backedUp, out, err, runtime, preUnit, preBak, lastInstall,
                   call, ret, results, exists>>

\* findLegacySystemdUnits: fs.access for the name at idx; without the manager
\* the record is decided at once, with it the is-enabled query begins
FindAccess ==
    /\ pc = "find_access" /\ idx <= Len(LegacyNames)
    /\ LET name == LegacyNames[idx]
           unitPath == resolveSystemdUnitPathForName(env, name)
           found == files[unitPath] # NoFile
       IN  /\ events' = Append(events, FsCall("fs.access", unitPath, found))
           /\ exists' = found
           /\ IF systemctlAvailable
              THEN /\ CallScoped
                   /\ pc' = "find_enabled"
                   /\ UNCHANGED <<results, idx>>
              ELSE /\ results' = IF found
                                 THEN Append(results,
                                             LegacyUnit(name, unitPath, FALSE, found))
                                 ELSE results
                   /\ idx' = idx + 1
                   /\ UNCHANGED <<rpc, rret, rwhy, pc>>
    /\ UNCHANGED <<cachedScopeArgs, scopeEnv, probes, firstDecision, files, op, env, cfg,
                   scopeLabel, backedUp, out, err, runtime, preUnit, preBak, lastInstall,
                   call, ret, systemctlAvailable>>

\* FindEnabled recording every name it queried
FindEnabledKeepAll ==
    /\ pc = "find_enabled" /\ rpc[Main] = "done"
    /\ NoScoped
    /\ LET name == LegacyNames[idx]
       IN  \E res \in LegacyEnabledResults :
              /\ Exec("is-enabled", name \o S_dot_service, res)
              /\ results' = Append(results,
                                   LegacyUnit(name,
                                              resolveSystemdUnitPathForName(env, name),
                                              res.code = 0, exists))
    /\ idx' = idx + 1
    /\ pc' = "find_access"
    /\ UNCHANGED <<cachedScopeArgs, scopeEnv, probes, firstDecision, files, op, env, cfg,
                   scopeLabel, backedUp, out, err, runtime, preUnit, preBak, lastInstall,
                   call, ret, systemctlAvailable, exists>>

\* the is-enabled query exits: the record is pushed if exists or enabled
FindEnabled ==
    /\ pc = "find_enabled" /\ rpc[Main] = "done"
    /\ NoScoped
    /\ LET name == LegacyNames[idx]
       IN  \E res \in LegacyEnabledResults :
              /\ Exec("is-enabled", name \o S_dot_service, res)
              /\ results' = IF exists \/ res.code = 0
                            THEN Append(results,
                                        LegacyUnit(name,
                                                   resolveSystemdUnitPathForName(env, name),
                                                   res.code = 0, exists))
                            ELSE results
    /\ idx' = idx + 1
    /\ pc' = "find_access"
    /\ UNCHANGED <<cachedScopeArgs, scopeEnv, probes, firstDecision, files, op, env, cfg,
                   scopeLabel, backedUp, out, err, runtime, preUnit, preBak, lastInstall,
                   call, ret, systemctlAvailable, exists>>

\* the loop over the names is over: findLegacySystemdUnits returns; inside
\* uninstallLegacySystemdUnits an empty list is returned at once, otherwise
\* the second isSystemctlAvailable begins
FindReturn ==
    /\ pc = "find_access" /\ idx > Len(LegacyNames)
    /\ IF op = "findLegacy" \/ Len(results) = 0
       THEN /\ ret' = Returned(results)
            /\ pc' = "returned"
            /\ UNCHANGED <<rpc, rret, rwhy>>
       ELSE /\ CallScoped
            /\ pc' = "avail2_wait"
            /\ ret' = ret
    /\ UNCHANGED <<cachedScopeArgs, scopeEnv, probes, firstDecision, files, op, env, cfg,
                   scopeLabel, backedUp, events, out, err, runtime, preUnit, preBak,
                   lastInstall, call, legacyVars>>

\* the line written when a unit is removed without the manager
LegacyWarning(unit) ==
    [label |-> "systemctl unavailable; removed legacy unit file only:",
     value |-> unit.name \o S_dot_service]

\* uninstallLegacySystemdUnits: for the unit at idx, disable --now begins, or
\* the warning line is written
RemoveBegin ==
    /\ pc = "remove" /\ idx <= Len(results)
    /\ IF systemctlAvailable
       THEN /\ CallScoped
            /\ pc' = "remove_disable"
            /\ out' = out
       ELSE /\ out' = Append(out, LegacyWarning(results[idx]))
            /\ pc' = "remove_unlink"
            /\ UNCHANGED <<rpc, rret, rwhy>>
    /\ UNCHANGED <<cachedScopeArgs, scopeEnv, probes, firstDecision, files, op, env, cfg,
                   scopeLabel, backedUp, events, err, runtime, preUnit, preBak,
                   lastInstall, extraVars>>

\* disable --now exits: its exit code is not looked at
RemoveDisable ==
    /\ pc = "remove_disable" /\ rpc[Main] = "done"
    /\ NoScoped
    /\ \E res \in LegacyDisableResults :
          Exec("disable --now", results[idx].name \o S_dot_service, res)
    /\ pc' = "remove_unlink"
    /\ UNCHANGED <<cachedScopeArgs, scopeEnv, probes, firstDecision, files, op, env, cfg,
                   scopeLabel, backedUp, out, err, runtime, preUnit, preBak, lastInstall,
                   extraVars>>

\* the line reporting the removal of a legacy unit file
LegacyLine(unitPath, existed) ==
    IF existed
    THEN [label |-> "Removed legacy systemd service", value |-> unitPath]
    ELSE [label |-> "Legacy systemd unit not found at", value |-> unitPath]

\* RemoveUnlink leaving the loop after the first unit
RemoveUnlinkOnce ==
    /\ pc = "remove_unlink"
    /\ LET unitPath == results[idx].unitPath
       IN  /\ files' = [files EXCEPT ![unitPath] = NoFile]
           /\ events' = Append(events,
                               FsCall("fs.unlink", unitPath, files[unitPath] # NoFile))
           /\ out' = Append(out, LegacyLine(unitPath, files[unitPath] # NoFile))
    /\ idx' = Len(results) + 1
    /\ pc' = "remove"
    /\ UNCHANGED <<scopeVars, op, env, cfg, scopeLabel, backedUp, err, runtime, preUnit,
                   preBak, lastInstall, call, ret, systemctlAvailable, results, exists>>

\* fs.unlink of the unit file and the line reporting it; the next unit is due
RemoveUnlink ==
    /\ pc = "remove_unlink"
    /\ LET unitPath == results[idx].unitPath
       IN  /\ files' = [files EXCEPT ![unitPath] = NoFile]
           /\ events' = Append(events,
                               FsCall("fs.unlink", unitPath, files[unitPath] # NoFile))
           /\ out' = Append(out, LegacyLine(unitPath, files[unitPath] # NoFile))
    /\ idx' = idx + 1
    /\ pc' = "remove"
    /\ UNCHANGED <<scopeVars, op, env, cfg, scopeLabel, backedUp, err, runtime, preUnit,
                   preBak, lastInstall, call, ret, systemctlAvailable, results, exists>>

\* every unit has been handled: uninstallLegacySystemdUnits returns the units
RemoveReturn ==
    /\ pc = "remove" /\ idx > Len(results)
    /\ ret' = Returned(results)
    /\ pc' = "returned"
    /\ UNCHANGED <<scopeVars, files, op, env, cfg, scopeLabel, backedUp, events, out, err,
                   runtime, preUnit, preBak, lastInstall, call, legacyVars>>

\* ------------------------------------ readSystemdServiceExecStart, called

\* ReadExecStartCall deleting a unit file it could not take a command from
ReadExecStartCallCleanup ==
    /\ pc = "idle"
    /\ \E e \in Envs :
          /\ env' = e
          /\ ret' = Returned(readSystemdServiceExecStart(e))
          /\ files' = IF readSystemdServiceExecStart(e) = {}
                      THEN [files EXCEPT ![resolveSystemdUnitPath(e)] = NoFile]
                      ELSE [files EXCEPT ![resolveSystemdUnitPath(e)] =
                               SubSeq(@, 1, Len(@) - 1)]
    /\ op' = "readExecStart"
    /\ pc' = "returned"
    /\ UNCHANGED <<scopeVars, cfg, scopeLabel, backedUp, events, out, err, runtime,
                   preUnit, preBak, lastInstall, call, legacyVars>>

\* the caller reads the command back from the unit file of env
ReadExecStartCall ==
    /\ pc = "idle"
    /\ \E e \in Envs :
          /\ env' = e
          /\ ret' = Returned(readSystemdServiceExecStart(e))
    /\ op' = "readExecStart"
    /\ pc' = "returned"
    /\ UNCHANGED <<scopeVars, files, cfg, scopeLabel, backedUp, events, out, err,
                   runtime, preUnit, preBak, lastInstall, call, legacyVars>>

\* ------------------------------------------------------------ the caller

\* the caller has the operation's outcome and is ready for the next one
Finish ==
    /\ pc \in {"returned", "thrown"}
    /\ lastInstall' = IF op = "install" /\ pc = "returned"
                      THEN [env |-> env, cfg |-> cfg,
                            unit |-> files[resolveSystemdUnitPath(env)]]
                      ELSE NoLast
    /\ op' = "none"
    /\ pc' = "idle"
    /\ env' = NoEnv
    /\ cfg' = NoCfg
    /\ scopeLabel' = <<>>
    /\ backedUp' = FALSE
    /\ events' = <<>>
    /\ out' = <<>>
    /\ err' = <<>>
    /\ runtime' = NoRuntime
    /\ preUnit' = NoFile
    /\ preBak' = NoFile
    /\ ret' = NoRet
    /\ systemctlAvailable' = FALSE
    /\ results' = <<>>
    /\ idx' = 1
    /\ exists' = FALSE
    /\ UNCHANGED <<scopeVars, files, call>>

Next ==
    \/ SetScopeEnv
    \/ ResolveEnter(Main)
    \/ ProbeDone(Main)
    \/ Start
    \/ ResolveDirect
    \/ AssertStatus
    \/ AssertCheck
    \/ Propagate
    \/ InstallBackup
    \/ InstallWrite
    \/ InstallReload
    \/ InstallEnable
    \/ InstallRestart
    \/ UninstallBegin
    \/ UninstallDisable
    \/ UninstallUnlink
    \/ ReadRuntimeCatch
    \/ ReadRuntimeBegin
    \/ ReadRuntimeShow
    \/ RunActionBegin
    \/ RunActionDone
    \/ IsEnabledBegin
    \/ IsEnabledQuery
    \/ Finish

\* operations invoked one after another by a single caller
Spec ==
    Init /\ [][Next]_vars

ConcNext ==
    \/ SetScopeEnv
    \/ \E c \in Callers : CallerStart(c)
    \/ \E c \in Callers : ResolveEnter(c)
    \/ \E c \in Callers : ProbeDone(c)
    \/ \E c \in Callers : CallerReturn(c)

\* several callers inside resolveSystemctlScopeArgs at once
ConcSpec ==
    Init /\ [][ConcNext]_vars

\* ------------------------------------------------- the legacy operations

\* legacy unit files may be left on disk; the override is set or not
LegacyInit ==
    /\ cachedScopeArgs = Undefined
    /\ scopeEnv \in {Undefined, V_SystemPadded}
    /\ rpc = [c \in {Main} \cup Callers |-> "idle"]
    /\ rret = [c \in {Main} \cup Callers |-> Undefined]
    /\ rwhy = [c \in {Main} \cup Callers |-> NoWhy]
    /\ probes = 0
    /\ firstDecision = Undefined
    /\ \E present \in SUBSET LegacyPaths :
          files = [p \in Paths |-> IF p \in present THEN F_Foreign ELSE NoFile]
    /\ op = "none"
    /\ pc = "idle"
    /\ env = NoEnv
    /\ cfg = NoCfg
    /\ scopeLabel = <<>>
    /\ backedUp = FALSE
    /\ events = <<>>
    /\ out = <<>>
    /\ err = <<>>
    /\ runtime = NoRuntime
    /\ preUnit = NoFile
    /\ preBak = NoFile
    /\ lastInstall = NoLast
    /\ call = NoCall
    /\ ret = NoRet
    /\ NoLegacy

LegacyNext ==
    \/ ResolveEnter(Main)
    \/ ProbeDone(Main)
    \/ LegacyStart
    \/ LegacyProbe
    \/ FindAccess
    \/ FindEnabled
    \/ FindReturn
    \/ RemoveBegin
    \/ RemoveDisable
    \/ RemoveUnlink
    \/ RemoveReturn
    \/ Finish

\* findLegacySystemdUnits and uninstallLegacySystemdUnits, one after another
LegacySpec ==
    LegacyInit /\ [][LegacyNext]_vars

\* --------------------------------------------------- every operation

\* unit files and legacy unit files may be on disk; the scope is auto-detected
FrameInit ==
    /\ cachedScopeArgs = Undefined
    /\ scopeEnv = Undefined
    /\ rpc = [c \in {Main} \cup Callers |-> "idle"]
    /\ rret = [c \in {Main} \cup Callers |-> Undefined]
    /\ rwhy = [c \in {Main} \cup Callers |-> NoWhy]
    /\ probes = 0
    /\ firstDecision = Undefined
    /\ \E pre \in {NoFile, F_Foreign}, present \in {{}, LegacyPaths} :
          files = [p \in Paths |->
                     IF p = resolveSystemdUnitPath(NoEnv) THEN pre
                     ELSE IF p \in present THEN F_Foreign
                     ELSE NoFile]
    /\ op = "none"
    /\ pc = "idle"
    /\ env = NoEnv
    /\ cfg = NoCfg
    /\ scopeLabel = <<>>
    /\ backedUp = FALSE
    /\ events = <<>>
    /\ out = <<>>
    /\ err = <<>>
    /\ runtime = NoRuntime
    /\ preUnit = NoFile
    /\ preBak = NoFile
    /\ lastInstall = NoLast
    /\ call = NoCall
    /\ ret = NoRet
    /\ NoLegacy

FrameNext ==
    \/ ResolveEnter(Main)
    \/ ProbeDone(Main)
    \/ Start
    \/ ResolveDirect
    \/ AssertStatus
    \/ AssertCheck
    \/ Propagate
    \/ InstallBackup
    \/ InstallWrite
    \/ InstallReload
    \/ InstallEnable
    \/ InstallRestart
    \/ UninstallBegin
    \/ UninstallDisable
    \/ UninstallUnlink
    \/ ReadRuntimeCatch
    \/ ReadRuntimeBegin
    \/ ReadRuntimeShow
    \/ RunActionBegin
    \/ RunActionDone
    \/ IsEnabledBegin
    \/ IsEnabledQuery
    \/ ReadExecStartCall
    \/ LegacyStart
    \/ LegacyProbe
    \/ FindAccess
    \/ FindEnabled
    \/ FindReturn
    \/ RemoveBegin
    \/ RemoveDisable
    \/ RemoveUnlink
    \/ RemoveReturn
    \/ Finish

\* every exported operation, one after another by a single caller
FrameSpec ==
    FrameInit /\ [][FrameNext]_vars

\* --------------------------------- an operation beside concurrent callers

\* nothing has been resolved and no override is set
RaceInit ==
    /\ cachedScopeArgs = Undefined
    /\ scopeEnv = Undefined
    /\ rpc = [c \in {Main} \cup Callers |-> "idle"]
    /\ rret = [c \in {Main} \cup Callers |-> Undefined]
    /\ rwhy = [c \in {Main} \cup Callers |-> NoWhy]
    /\ probes = 0
    /\ firstDecision = Undefined
    /\ \E pre \in {NoFile, F_Foreign} :
          files = [p \in Paths |->
                     IF p = resolveSystemdUnitPath(NoEnv) THEN pre ELSE NoFile]
    /\ op = "none"
    /\ pc = "idle"
    /\ env = NoEnv
    /\ cfg = NoCfg
    /\ scopeLabel = <<>>
    /\ backedUp = FALSE
    /\ events = <<>>
    /\ out = <<>>
    /\ err = <<>>
    /\ runtime = NoRuntime
    /\ preUnit = NoFile
    /\ preBak = NoFile
    /\ lastInstall = NoLast
    /\ call = NoCall
    /\ ret = NoRet
    /\ NoLegacy

\* one concurrent caller is enough to overlap with the operation
Rivals ==
    {c \in Callers : \A d \in Callers : c <= d}

RaceNext ==
    \/ \E c \in Rivals : CallerStart(c)
    \/ \E c \in {Main} \cup Rivals : ResolveEnter(c)
    \/ \E c \in {Main} \cup Rivals : ProbeDone(c)
    \/ \E c \in Rivals : CallerReturn(c)
    \/ Start
    \/ ResolveDirect
    \/ AssertStatus
    \/ AssertCheck
    \/ Propagate
    \/ InstallBackup
    \/ InstallWrite
    \/ InstallReload
    \/ InstallEnable
    \/ InstallRestart
    \/ UninstallBegin
    \/ UninstallDisable
    \/ UninstallUnlink
    \/ ReadRuntimeCatch
    \/ ReadRuntimeBegin
    \/ ReadRuntimeShow
    \/ RunActionBegin
    \/ RunActionDone
    \/ IsEnabledBegin
    \/ IsEnabledQuery

\* one operation of the caller while another caller resolves the scope
RaceSpec ==
    RaceInit /\ [][RaceNext]_vars

\* ------------------------------------------------- functions without state

\* no operation is running and nothing has been resolved
Quiet ==
    /\ cachedScopeArgs = Undefined
    /\ scopeEnv = Undefined
    /\ rpc = [c \in {Main} \cup Callers |-> "idle"]
    /\ rret = [c \in {Main} \cup Callers |-> Undefined]
    /\ rwhy = [c \in {Main} \cup Callers |-> NoWhy]
    /\ probes = 0
    /\ firstDecision = Undefined
    /\ op = "none"
    /\ pc = "idle"
    /\ env = NoEnv
    /\ cfg = NoCfg
    /\ scopeLabel = <<>>
    /\ backedUp = FALSE
    /\ events = <<>>
    /\ out = <<>>
    /\ err = <<>>
    /\ runtime = NoRuntime
    /\ preUnit = NoFile
    /\ preBak = NoFile
    /\ lastInstall = NoLast
    /\ NoLegacy

S_MainPID_eq ==
    <<"M","a","i","n","P","I","D","=">>

S_ExecMainStatus_eq ==
    <<"E","x","e","c","M","a","i","n","S","t","a","t","u","s","=">>

S_ActiveState_line ==
    <<"A","c","t","i","v","e","S","t","a","t","e","=","a","c","t","i","v","e","\n">>

\* the texts a numeric property of `systemctl show` is given
NumberTexts ==
    { <<"0">>,
      <<"4","2">>,
      <<"1","2","a","b","c">>,
      <<"-","5">>,
      <<"+","7">>,
      <<"a","b","c">>,
      <<"1",".","5">>,
      <<"-">>,
      <<"0","0","7">> }

\* a property line of the show output; an absent property has no line
PropertyLine(key, value) ==
    IF value = Undefined THEN <<>> ELSE key \o value \o <<"\n">>

ShowOutputOf(mainPid, execMainStatus) ==
    S_ActiveState_line \o PropertyLine(S_MainPID_eq, mainPid)
        \o PropertyLine(S_ExecMainStatus_eq, execMainStatus)

ParseCalls ==
    { [fn |-> "parseSystemdShow", mainPid |-> m, execMainStatus |-> e,
       output |-> ShowOutputOf(m, e)] :
         m \in NumberTexts \cup {<<>>, Undefined},
         e \in NumberTexts \cup {<<>>, Undefined} }

ParseInit ==
    /\ Quiet
    /\ files = [p \in Paths |-> NoFile]
    /\ call \in ParseCalls
    /\ ret = NoRet

\* parseSystemdShow is applied to the output
ApplyParseSystemdShow ==
    /\ call.fn = "parseSystemdShow"
    /\ ~ret.done
    /\ ret' = Returned(parseSystemdShow(call.output))
    /\ UNCHANGED <<scopeVars, opVars, call, legacyVars>>

ParseNext ==
    \/ ApplyParseSystemdShow

\* parseSystemdShow applied to one show output
ParseSpec ==
    ParseInit /\ [][ParseNext]_vars

\* --------------------------------------------------- the unit file codec

\* the command lines a unit is built from
CodecArguments ==
    { <<A_node, A_server>>,
      <<A_node, A_server, A_port, A_8080>>,
      <<A_node, A_my_app>>,
      <<A_node, A_say_hi>>,
      <<A_node, A_win_dir, A_tabbed>>,
      <<A_lead, A_tail_bs>>,
      <<A_node, A_its, A_mixed>> }

CodecEnvironments ==
    { <<>>,
      << <<K_NODE_ENV, A_production>> >>,
      << <<K_NODE_ENV, A_a_b>> >>,
      << <<K_NODE_ENV, A_quoted_value>> >>,
      << <<K_NODE_ENV, <<>> >> >>,
      << <<K_NODE_ENV, A_production>>, <<K_PATH, A_my_dir>> >> }

CodecConfigs ==
    { [programArguments |-> a, workingDirectory |-> w, environment |-> e,
       description |-> Undefined] :
          a \in CodecArguments, w \in {Undefined, A_srv, A_my_dir},
          e \in CodecEnvironments }

\* the unit files readSystemdServiceExecStart is given that install did not write
UnitTexts ==
    { NoFile, <<>>, F_Foreign, U_CommentOnly, U_EmptyExecStart, U_BlankExecStart,
      U_CommentedExecStart, U_Indented, U_Overridden, U_NotAtStart, U_EnvOverwrite,
      U_QuotesOnly, U_BackslashOnly }

\* either a config is about to be written as a unit, or a unit file is there
CodecInit ==
    /\ Quiet
    /\ ret = NoRet
    /\ \/ /\ call \in {[fn |-> "buildSystemdUnit", config |-> c] : c \in CodecConfigs}
          /\ files = [p \in Paths |-> NoFile]
       \/ /\ call = [fn |-> "readSystemdServiceExecStart", config |-> NoCfg]
          /\ \E text \in UnitTexts :
                files = [p \in Paths |->
                           IF p = resolveSystemdUnitPath(NoEnv) THEN text ELSE NoFile]

\* the unit is built from the config and written, as install does
WriteUnit ==
    /\ call.fn = "buildSystemdUnit"
    /\ files[resolveSystemdUnitPath(NoEnv)] = NoFile
    /\ files' = [files EXCEPT ![resolveSystemdUnitPath(NoEnv)] =
                    buildSystemdUnit(resolveGatewayServiceDescription(NoEnv, call.config),
                                     call.config.programArguments,
                                     call.config.workingDirectory,
                                     call.config.environment)]
    /\ UNCHANGED <<scopeVars, op, pc, env, cfg, scopeLabel, backedUp, events, out, err,
                   runtime, preUnit, preBak, lastInstall, extraVars>>

\* readSystemdServiceExecStart is applied to the unit file
ReadExecStart ==
    /\ ~ret.done
    /\ call.fn = "buildSystemdUnit" => files[resolveSystemdUnitPath(NoEnv)] # NoFile
    /\ call.fn \in {"buildSystemdUnit", "readSystemdServiceExecStart"}
    /\ ret' = Returned(readSystemdServiceExecStart(NoEnv))
    /\ UNCHANGED <<scopeVars, opVars, call, legacyVars>>

CodecNext ==
    \/ WriteUnit
    \/ ReadExecStart

\* a unit is written and read back, or a given unit file is read
CodecSpec ==
    CodecInit /\ [][CodecNext]_vars

\* ------------------------------------------------- post-compaction audit

P_ws ==
    <<"/","w","s">>
P_WORKFLOW ==
    <<"W","O","R","K","F","L","O","W","_","A","U","T","O",".","m","d">>
P_DotWorkflow ==
    <<".","/","W","O","R","K","F","L","O","W","_","A","U","T","O",".","m",
      "d">>
P_AbsWorkflow ==
    <<"/","w","s","/","W","O","R","K","F","L","O","W","_","A","U","T","O",".",
      "m","d">>
P_UpWorkflow ==
    <<"m","e","m","o","r","y","/",".",".","/","W","O","R","K","F","L","O","W",
      "_","A","U","T","O",".","m","d">>
P_OtherWorkflow ==
    <<"/","o","t","h","e","r","/","W","O","R","K","F","L","O","W","_","A","U",
      "T","O",".","m","d">>
P_LowerWorkflow ==
    <<"w","o","r","k","f","l","o","w","_","a","u","t","o",".","m","d">>
P_Daily ==
    <<"m","e","m","o","r","y","/","2","0","2","6","-","0","2","-","1","6",".",
      "m","d">>
P_AbsDaily ==
    <<"/","w","s","/","m","e","m","o","r","y","/","2","0","2","6","-","0","2",
      "-","1","6",".","m","d">>
P_OldDaily ==
    <<".","/","m","e","m","o","r","y","/","/","2","0","2","5","-","1","2","-",
      "3","1",".","m","d">>
P_Notes ==
    <<"m","e","m","o","r","y","/","n","o","t","e","s",".","m","d">>
P_AbsNotes ==
    <<"/","w","s","/","m","e","m","o","r","y","/","n","o","t","e","s",".","m",
      "d">>
P_custom ==
    <<"c","u","s","t","o","m",".","m","d">>
P_AbsCustom ==
    <<"/","w","s","/","c","u","s","t","o","m",".","m","d">>
P_memory ==
    <<"m","e","m","o","r","y">>
S_daily_source ==
    <<"m","e","m","o","r","y","\\","/","\\","d","{","4","}","-","\\","d","{","2","}","-",
      "\\","d","{","2","}","\\",".","m","d">>

\* path segments with '.', '' and '..' worked off, as path.resolve leaves them
RECURSIVE NormalizeSegments(_, _)
NormalizeSegments(segs, acc) ==
    IF segs = <<>> THEN acc
    ELSE IF Head(segs) \in {<<>>, <<".">>} THEN NormalizeSegments(Tail(segs), acc)
    ELSE IF Head(segs) = <<".", ".">>
    THEN NormalizeSegments(Tail(segs),
                           IF acc = <<>> THEN acc ELSE SubSeq(acc, 1, Len(acc) - 1))
    ELSE NormalizeSegments(Tail(segs), Append(acc, Head(segs)))

\* path.resolve(workspaceDir, p) as the segments of the absolute path
Resolve(workspaceDir, p) ==
    IF p # <<>> /\ Head(p) = "/"
    THEN NormalizeSegments(SplitOn(p, "/"), <<>>)
    ELSE NormalizeSegments(SplitOn(workspaceDir, "/") \o SplitOn(p, "/"), <<>>)

\* path.relative(from, to) of two resolved paths, joined with '/'
Relative(from, to) ==
    LET common == CHOOSE n \in 0..Len(from) :
                     /\ n <= Len(to)
                     /\ SubSeq(from, 1, n) = SubSeq(to, 1, n)
                     /\ \A m \in (n + 1)..Len(from) :
                           m > Len(to) \/ SubSeq(from, 1, m) # SubSeq(to, 1, m)
    IN  JoinWith([i \in 1..(Len(from) - common) |-> <<".", ".">>]
                 \o SubSeq(to, common + 1, Len(to)), <<"/">>)

\* /memory\/\d{4}-\d{2}-\d{2}\.md/.test(text)
DailyMemoryTest(text) ==
    \E i \in 1..(Len(text) - 19) :
        /\ SubSeq(text, i, i + 6) = P_memory \o <<"/">>
        /\ \A k \in {7, 8, 9, 10, 12, 13, 15, 16} : IsDigit(text[i + k])
        /\ text[i + 11] = "-" /\ text[i + 14] = "-"
        /\ SubSeq(text, i + 17, i + 19) = <<".", "m", "d">>

\* the files on disk, as resolved paths
DiskFiles ==
    {Resolve(P_ws, P_AbsWorkflow), Resolve(P_ws, P_AbsDaily),
     Resolve(P_ws, P_AbsNotes), Resolve(P_ws, P_AbsCustom)}

\* fs.readdirSync(dir): the names right under dir; {} also when dir is missing
Readdir(disk, dir) ==
    {f[Len(dir) + 1] : f \in {g \in disk : Len(g) > Len(dir) /\ SubSeq(g, 1, Len(dir)) = dir}}

\* fs.existsSync(p): a file, or a directory that holds one
ExistsSync(disk, p) ==
    \E f \in disk : Len(f) >= Len(p) /\ SubSeq(f, 1, Len(p)) = p

\* pattern.test(text) for the patterns in use
RegExpTest(pattern, text) ==
    pattern = S_daily_source /\ DailyMemoryTest(text)

\* findMatchingFiles finding a match wherever it looks
findMatchingFilesAlways(disk, workspaceDir, pattern) ==
    TRUE

\* whether the workspace root or memory/ holds an entry the pattern matches
findMatchingFiles(disk, workspaceDir, pattern) ==
    LET root == Resolve(workspaceDir, <<>>)
        dirs == {root, Append(root, P_memory)}
    IN  \E dir \in dirs : \E entry \in Readdir(disk, dir) :
           RegExpTest(pattern, Relative(root, Append(dir, entry)))

\* the default list, and lists a caller passes
DEFAULT_REQUIRED_READS ==
    << [kind |-> "string", text |-> P_WORKFLOW],
       [kind |-> "RegExp", text |-> S_daily_source] >>

\* whether one required entry goes into missingPatterns
IsMissing(disk, readFilePaths, workspaceDir, required) ==
    IF required.kind = "string"
    THEN /\ ExistsSync(disk, Resolve(workspaceDir, required.text))
         /\ ~\E i \in 1..Len(readFilePaths) :
                Resolve(workspaceDir, readFilePaths[i])
                    = Resolve(workspaceDir, required.text)
    ELSE /\ findMatchingFiles(disk, workspaceDir, required.text)
         /\ ~\E i \in 1..Len(readFilePaths) :
                RegExpTest(required.text,
                           Relative(Resolve(workspaceDir, <<>>),
                                    Resolve(workspaceDir, readFilePaths[i])))

auditPostCompactionReads(disk, readFilePaths, workspaceDir, requiredReads) ==
    LET missing == SelectSeq(requiredReads,
                             LAMBDA r : IsMissing(disk, readFilePaths, workspaceDir, r))
        missingPatterns == [i \in 1..Len(missing) |-> missing[i].text]
    IN  [passed |-> Len(missingPatterns) = 0, missingPatterns |-> missingPatterns]

\* the read paths the session log may hold
ReadPaths ==
    {P_WORKFLOW, P_DotWorkflow, P_AbsWorkflow, P_UpWorkflow, P_OtherWorkflow,
     P_LowerWorkflow, P_Daily, P_AbsDaily, P_OldDaily, P_Notes, P_custom}

RequiredLists ==
    { DEFAULT_REQUIRED_READS,
      << [kind |-> "string", text |-> P_custom] >>,
      << [kind |-> "RegExp", text |-> S_daily_source],
         [kind |-> "string", text |-> P_DotWorkflow],
         [kind |-> "string", text |-> P_custom] >> }

AuditCalls ==
    { [fn |-> "auditPostCompactionReads", disk |-> d, readFilePaths |-> r,
       workspaceDir |-> P_ws, requiredReads |-> q] :
          d \in SUBSET DiskFiles,
          r \in {<<>>} \cup {<<a>> : a \in ReadPaths}
                  \cup {<<a, b>> : a \in {P_DotWorkflow, P_OldDaily, P_Notes},
                                   b \in ReadPaths},
          q \in RequiredLists }

AuditInit ==
    /\ Quiet
    /\ files = [p \in Paths |-> NoFile]
    /\ call \in AuditCalls
    /\ ret = NoRet

\* auditPostCompactionReads is applied to the read paths
ApplyAudit ==
    /\ call.fn = "auditPostCompactionReads"
    /\ ~ret.done
    /\ ret' = Returned(auditPostCompactionReads(call.disk, call.readFilePaths,
                                                call.workspaceDir, call.requiredReads))
    /\ UNCHANGED <<scopeVars, opVars, call, legacyVars>>

AuditNext ==
    \/ ApplyAudit

\* auditPostCompactionReads applied to one workspace and one list of reads
AuditSpec ==
    AuditInit /\ [][AuditNext]_vars

\* ------------------------------------- the result of a successful show

S_ActiveState_eq ==
    <<"A","c","t","i","v","e","S","t","a","t","e","=">>

S_SubState_eq ==
    <<"S","u","b","S","t","a","t","e","=">>

S_ExecMainCode_eq ==
    <<"E","x","e","c","M","a","i","n","C","o","d","e","=">>

V_Active_mixed ==
    <<"A","c","t","i","v","e">>

V_inactive ==
    <<"i","n","a","c","t","i","v","e">>

V_auto_restart ==
    <<"a","u","t","o","-","r","e","s","t","a","r","t">>

V_Exited_mixed ==
    <<"E","x","i","t","e","d">>

\* show outputs built from the value of each of the five properties
RuntimeCalls ==
    { [fn |-> "readSystemdServiceRuntime", activeState |-> a, subState |-> b,
       mainPid |-> m, execMainStatus |-> e, execMainCode |-> c,
       output |-> PropertyLine(S_ActiveState_eq, a) \o PropertyLine(S_SubState_eq, b)
                    \o PropertyLine(S_MainPID_eq, m)
                    \o PropertyLine(S_ExecMainStatus_eq, e)
                    \o PropertyLine(S_ExecMainCode_eq, c)] :
         a \in {S_active, V_Active_mixed, V_inactive, <<>>, Undefined},
         b \in {V_auto_restart, Undefined},
         m \in NumberTexts \cup {Undefined},
         e \in NumberTexts \cup {Undefined},
         c \in {V_Exited_mixed, <<>>, Undefined} }

RuntimeInit ==
    /\ Quiet
    /\ files = [p \in Paths |-> NoFile]
    /\ call \in RuntimeCalls
    /\ ret = NoRet

\* the show query exited 0 with the output: the result is built
ApplyRuntimeOfShow ==
    /\ call.fn = "readSystemdServiceRuntime"
    /\ ~ret.done
    /\ ret' = Returned(RuntimeOfShow(Res(0, <<>>, call.output)))
    /\ UNCHANGED <<scopeVars, opVars, call, legacyVars>>

RuntimeNext ==
    \/ ApplyRuntimeOfShow

\* readSystemdServiceRuntime's result for one output of a successful show
RuntimeSpec ==
    RuntimeInit /\ [][RuntimeNext]_vars

\* ------------------------------------------------- extractReadPaths

\* a value of the session log: typeof is t, a string's text is v
JsString(text) ==
    [t |-> "string", v |-> text]

JsNumber ==
    [t |-> "number", v |-> <<"4","2">>]

JsNull ==
    [t |-> "object", v |-> <<>>]

JsUndefined ==
    [t |-> "undefined", v |-> <<>>]

\* a ?? b: b exactly when a is null or undefined
Nullish(a, b) ==
    IF a = JsNull \/ a = JsUndefined THEN b ELSE a

\* block.input; a block without input has present = FALSE
Input(filePath, path) ==
    [present |-> TRUE, file_path |-> filePath, path |-> path]

NoInput ==
    [present |-> FALSE, file_path |-> JsUndefined, path |-> JsUndefined]

Block(type, name, input) ==
    [type |-> type, name |-> name, input |-> input]

\* a message; content that is not an array has isArray = FALSE
Message(role, isArray, blocks) ==
    [role |-> role, isArray |-> isArray, blocks |-> blocks]

\* block.input?.file_path ?? block.input?.path of a read block, pushed when
\* it is a string; the mutant reads file_path only
BlockPathsFilePathOnly(block) ==
    IF block.type = "tool_use" /\ block.name = "read"
    THEN LET filePath == IF block.input.present
                         THEN block.input.file_path
                         ELSE JsUndefined
         IN  IF filePath.t = "string" THEN <<filePath.v>> ELSE <<>>
    ELSE <<>>

BlockPaths(block) ==
    IF block.type = "tool_use" /\ block.name = "read"
    THEN LET filePath == Nullish(IF block.input.present
                                 THEN block.input.file_path
                                 ELSE JsUndefined,
                                 IF block.input.present
                                 THEN block.input.path
                                 ELSE JsUndefined)
         IN  IF filePath.t = "string" THEN <<filePath.v>> ELSE <<>>
    ELSE <<>>

RECURSIVE BlocksPaths(_)
BlocksPaths(blocks) ==
    IF blocks = <<>> THEN <<>>
    ELSE BlockPaths(Head(blocks)) \o BlocksPaths(Tail(blocks))

RECURSIVE extractReadPaths(_)
extractReadPaths(messages) ==
    IF messages = <<>> THEN <<>>
    ELSE LET msg == Head(messages)
         IN  (IF msg.role # "assistant" \/ ~msg.isArray
              THEN <<>>
              ELSE BlocksPaths(msg.blocks))
             \o extractReadPaths(Tail(messages))

\* the blocks a session log may hold
LogInputs ==
    { NoInput,
      Input(JsString(P_WORKFLOW), JsUndefined),
      Input(JsUndefined, JsString(P_Notes)),
      Input(JsString(P_Daily), JsString(P_Notes)),
      Input(JsNull, JsString(P_Notes)),
      Input(JsNumber, JsString(P_Notes)),
      Input(JsString(<<>>), JsString(P_Notes)),
      Input(JsUndefined, JsNumber),
      Input(JsUndefined, JsUndefined) }

LogBlocks ==
    { Block("tool_use", "read", i) : i \in LogInputs }
      \cup { Block("tool_use", "exec", Input(JsString(P_WORKFLOW), JsUndefined)),
             Block("tool_use", "Read", Input(JsString(P_WORKFLOW), JsUndefined)),
             Block("text", "read", Input(JsString(P_WORKFLOW), JsUndefined)),
             Block("tool_result", "read", Input(JsUndefined, JsString(P_Notes))) }

LogContents ==
    {<<>>} \cup {<<b>> : b \in LogBlocks}
           \cup {<<a, b>> : a \in LogBlocks, b \in LogBlocks}

LogMessages ==
    { Message(r, TRUE, c) : r \in {"assistant", "user", "undefined"},
                            c \in LogContents }
      \cup { Message(r, FALSE, <<>>) : r \in {"assistant", "user"} }

\* the messages that come first in a log of two
FirstMessages ==
    { Message("assistant", TRUE,
              << Block("tool_use", "read", Input(JsString(P_WORKFLOW), JsUndefined)) >>),
      Message("assistant", TRUE,
              << Block("tool_use", "read", Input(JsUndefined, JsString(P_Notes))),
                 Block("tool_use", "read", Input(JsString(P_Daily), JsUndefined)) >>),
      Message("user", TRUE,
              << Block("tool_use", "read", Input(JsString(P_OldDaily), JsUndefined)) >>),
      Message("assistant", FALSE, <<>>) }

ExtractCalls ==
    { [fn |-> "extractReadPaths", messages |-> m] :
         m \in {<<>>} \cup {<<a>> : a \in LogMessages}
                 \cup {<<a, b>> : a \in FirstMessages, b \in LogMessages} }

ExtractInit ==
    /\ Quiet
    /\ files = [p \in Paths |-> NoFile]
    /\ call \in ExtractCalls
    /\ ret = NoRet

\* extractReadPaths is applied to the messages
ApplyExtractReadPaths ==
    /\ call.fn = "extractReadPaths"
    /\ ~ret.done
    /\ ret' = Returned(extractReadPaths(call.messages))
    /\ UNCHANGED <<scopeVars, opVars, call, legacyVars>>

ExtractNext ==
    \/ ApplyExtractReadPaths

\* extractReadPaths applied to one list of messages
ExtractSpec ==
    ExtractInit /\ [][ExtractNext]_vars

\* ------------------------------------------------------------ properties

\* the execSystemctl calls among the events
ExecEvents ==
    SelectSeq(events, LAMBDA e : e.cmd \notin FsCmds)

\* the manager actions among them: every call but the status probe
ManagerActions ==
    SelectSeq(events, LAMBDA e : e.cmd \notin FsCmds \cup {"status"})

CmdsOf(seq) ==
    [i \in 1..Len(seq) |-> seq[i].cmd]

IsPrefix(a, b) ==
    Len(a) <= Len(b) /\ a = SubSeq(b, 1, Len(a))

\* readSystemdServiceRuntime has returned after a show query that exited 0
ShowSucceeded ==
    /\ op = "readRuntime" /\ pc = "returned"
    /\ Len(events) = 2 /\ events[2].cmd = "show" /\ events[2].res.code = 0

(* C1: when the availability check and the show query both succeed, the    *)
(* status is running for an ActiveState that lower-cases to "active",      *)
(* stopped for any other non-empty ActiveState, unknown for an empty or     *)
(* absent one; readSystemdServiceRuntime produces no other status value.   *)
C1_StatusMapping ==
    /\ (op = "readRuntime" /\ pc = "returned")
          => runtime.status \in {"running", "stopped", "unknown"}
    /\ ShowSucceeded =>
          LET shown == events[2].res.stdout
          IN  /\ shown \in {O_Running, O_UpperActive} => runtime.status = "running"
              /\ shown \in {O_Inactive, O_Failed, O_Activating}
                    => runtime.status = "stopped"
              /\ shown \in {O_EmptyState, O_NoState, <<>>}
                    => runtime.status = "unknown"
              /\ runtime.state = Undefined => runtime.status = "unknown"
              /\ runtime.state # Undefined =>
                    /\ runtime.state # <<>>
                    /\ runtime.status = IF ToLowerCase(runtime.state) = S_active
                                        THEN "running" ELSE "stopped"

C1_Witness ==
    /\ ShowSucceeded
    /\ events[2].res.stdout = O_UpperActive
    /\ runtime.status = "running"

(* C2: once any call of resolveSystemctlScopeArgs has returned a decision, *)
(* the cached scope decision never changes again, in every interleaving    *)
(* of concurrent first-time callers.                                        *)
C2_CacheNeverChanges ==
    [][firstDecision # Undefined => cachedScopeArgs' = cachedScopeArgs]_vars

(* C3: in sequential execution, once the first resolveSystemctlScopeArgs   *)
(* call has completed, every later call returns that same decision and     *)
(* runs no probe, whatever the override variable now holds; at most one    *)
(* auto-detect probe is issued per process.                                 *)
C3_ScopeCaching ==
    /\ probes <= 1
    /\ firstDecision # Undefined =>
          /\ rpc[Main] # "probing"
          /\ rpc[Main] = "done" => rret[Main] = firstDecision

C3_Witness ==
    /\ rpc[Main] = "done"
    /\ rwhy[Main].cached
    /\ probes = 1
    /\ rret[Main] = UserArgs
    /\ Explicit(scopeEnv) = S_system

(* C4: a first resolution decides SystemWide for the override "system" and *)
(* UserSession for the override "user", both without a probe; with no      *)
(* recognised override it runs one probe: exit 0 gives UserSession, a      *)
(* failure whose stderr or stdout names a bus failure gives SystemWide,    *)
(* any other failure gives UserSession.  The decision is in the cache.     *)
C4_FirstResolution ==
    (rpc[Main] = "done" /\ ~rwhy[Main].cached) =>
        LET override == rwhy[Main].override
            res == rwhy[Main].res
            decision == rret[Main]
        IN  /\ cachedScopeArgs = decision
            /\ override = V_SystemPadded => decision = SystemArgs /\ res = NoRes
            /\ override = V_UserUpper => decision = UserArgs /\ res = NoRes
            /\ override \in {Undefined, V_Session} =>
                  /\ res \in ProbeResults
                  /\ res.code = 0 => decision = UserArgs
                  /\ res \in { Res(1, T_FailedToConnect, <<>>),
                                Res(1, T_NotBooted, <<>>),
                                Res(1, <<>>, T_NoSuchFile),
                                Res(1, T_Boom, T_NotSupported) }
                        => decision = SystemArgs
                  /\ res \in {Res(1, T_Denied, <<>>), Res(1, <<>>, <<>>)}
                        => decision = UserArgs

C4_Witness ==
    /\ rpc[Main] = "done" /\ ~rwhy[Main].cached
    /\ rwhy[Main].override = V_Session
    /\ rwhy[Main].res = Res(1, T_Boom, T_NotSupported)
    /\ rret[Main] = SystemArgs /\ cachedScopeArgs = SystemArgs

\* install has written the unit file
UnitWritten ==
    \E i \in 1..Len(events) : events[i].cmd = "fs.writeFile"

(* C5: install issues daemon-reload, enable, restart in that order, each   *)
(* at most once, all after the unit file has been written, each only if    *)
(* the one before exited 0; the first non-zero exit makes install throw an *)
(* error carrying the captured stderr (or stdout), and nothing is issued   *)
(* after it.                                                                *)
C5_InstallOrder ==
    op = "install" =>
        LET acts == ManagerActions
        IN  /\ IsPrefix(CmdsOf(acts), <<"daemon-reload", "enable", "restart">>)
            /\ \A i \in 2..Len(acts) : acts[i - 1].res.code = 0
            /\ acts # <<>> =>
                  \E i \in 1..Len(events) :
                     /\ events[i].cmd = "fs.writeFile"
                     /\ \A j \in 1..i : events[j].cmd \notin
                                            {"daemon-reload", "enable", "restart"}
            /\ (acts # <<>> /\ acts[Len(acts)].res.code # 0) =>
                  /\ pc = "thrown"
                  /\ Includes(err, StrOr(acts[Len(acts)].res.stderr,
                                         acts[Len(acts)].res.stdout))
            /\ pc = "returned" =>
                  /\ Len(acts) = 3
                  /\ \A i \in 1..3 : acts[i].res.code = 0

C5_Witness ==
    /\ op = "install" /\ pc = "thrown"
    /\ CmdsOf(ManagerActions) = <<"daemon-reload", "enable">>
    /\ ManagerActions[2].res = Res(1, <<>>, T_Boom)
    /\ Includes(err, T_Boom)

ReadUnavailable ==
    /\ op = "readRuntime" /\ pc = "returned"
    /\ events[1].cmd = "status" /\ events[1].res.code # 0

(* C9: readSystemdServiceRuntime never throws; when the availability       *)
(* assertion fails it returns status unknown with the error's text as      *)
(* detail and issues no show query.                                         *)
C9_RuntimeUnavailable ==
    /\ op = "readRuntime" => pc # "thrown"
    /\ ReadUnavailable =>
          LET captured == StrOr(events[1].res.stderr, events[1].res.stdout)
          IN  /\ CmdsOf(events) = <<"status">>
              /\ runtime.status = "unknown"
              /\ runtime.detail # Undefined
              /\ IsPrefix(S_Error_prefix, runtime.detail)
              /\ IF Includes(ToLowerCase(captured), S_not_found)
                 THEN Includes(runtime.detail, S_not_available)
                 ELSE Includes(runtime.detail, captured)

C9_Witness ==
    /\ ReadUnavailable
    /\ events[1].res = Res(1, T_FailedToConnect, <<>>)
    /\ runtime.status = "unknown"
    /\ Includes(runtime.detail, T_FailedToConnect)

\* readSystemdServiceRuntime has returned after a show query that exited non-zero
ShowFailed ==
    /\ op = "readRuntime" /\ pc = "returned"
    /\ Len(events) = 2 /\ events[2].cmd = "show" /\ events[2].res.code # 0

(* C10: when the availability assertion succeeds and the show query exits  *)
(* non-zero, the result is status stopped with missingUnit true if the     *)
(* error text contains "not found" in any letter case, and status unknown  *)
(* otherwise; in every result, missingUnit true implies status stopped.    *)
C10_ShowFailed ==
    /\ runtime.missingUnit = {TRUE} => runtime.status = "stopped"
    /\ ShowFailed =>
          LET res == events[2].res
              text == StrOr(res.stderr, res.stdout)
          IN  /\ res \in {Res(1, T_UnitNotFound, <<>>), Res(1, <<>>, T_UnitNotFoundUpper)}
                    => runtime.status = "stopped" /\ runtime.missingUnit = {TRUE}
              /\ res = Res(1, <<>>, <<>>)
                    => runtime.status = "unknown" /\ runtime.missingUnit = {FALSE}
              /\ IF Includes(ToLowerCase(text), S_not_found)
                 THEN runtime.status = "stopped" /\ runtime.missingUnit = {TRUE}
                 ELSE runtime.status = "unknown" /\ runtime.missingUnit # {TRUE}

C10_Witness ==
    /\ ShowFailed
    /\ events[2].res = Res(1, <<>>, T_UnitNotFoundUpper)
    /\ runtime.status = "stopped"
    /\ runtime.missingUnit = {TRUE}

\* an optionally signed, non-empty run of decimal digits
IsIntegerText(t) ==
    LET body == IF t # <<>> /\ Head(t) \in {"-", "+"} THEN Tail(t) ELSE t
    IN  body # <<>> /\ \A i \in 1..Len(body) : IsDigit(body[i])

\* the integer zero written as text
IsZeroText(t) ==
    LET body == IF t # <<>> /\ Head(t) \in {"-", "+"} THEN Tail(t) ELSE t
    IN  body # <<>> /\ \A i \in 1..Len(body) : body[i] = "0"

\* a numeric field follows strict integer validation of its text
StrictField(text, field) ==
    /\ (text = Undefined \/ ~IsIntegerText(text)) => field = {}
    /\ (text # Undefined /\ IsZeroText(text)) => field = {0}

\* C11: in parseSystemdShow a numeric field (MainPID, ExecMainStatus) whose
\* text is not an integer is omitted, never a number taken from part of the
\* text and never zero; a field whose text is the integer zero is reported as
\* the value zero
C11_StrictNumericFields ==
    (call.fn = "parseSystemdShow" /\ ret.done) =>
        /\ StrictField(call.mainPid, ret.value.mainPid)
        /\ StrictField(call.execMainStatus, ret.value.execMainStatus)

\* the action word of stop and restart as text
ActionWord(action) ==
    IF action = "stop" THEN <<"s","t","o","p">>
    ELSE <<"r","e","s","t","a","r","t">>

\* C12: stopSystemdService and restartSystemdService, once the availability
\* check has passed, issue exactly one manager action (stop or restart)
\* against '<unit name>.service'; a non-zero exit throws an error naming the
\* action and carrying the captured output and writes no line; exit 0 writes
\* one line naming the unit acted upon
C12_StopRestart ==
    (op \in {"stop", "restart"} /\ pc \in {"returned", "thrown"}
        /\ events[1].res.code = 0) =>
        LET unitName == resolveSystemdServiceName(env) \o S_dot_service
        IN  /\ CmdsOf(events) = <<"status", op>>
            /\ events[2].unit = unitName
            /\ events[2].res.code # 0 =>
                  /\ pc = "thrown"
                  /\ out = <<>>
                  /\ Includes(err, ActionWord(op))
                  /\ Includes(err, StrOr(events[2].res.stderr, events[2].res.stdout))
            /\ events[2].res.code = 0 =>
                  /\ pc = "returned"
                  /\ err = <<>>
                  /\ out = <<[label |-> ActionLabel(op), value |-> unitName]>>

C12_Witness ==
    /\ op = "stop" /\ pc = "thrown" /\ env = CustomEnv
    /\ Len(events) = 2 /\ events[2].cmd = "stop" /\ events[2].res.code # 0
    /\ events[2].unit = <<"c","u","s","t","o","m",".","s","e","r","v","i","c","e">>
    /\ Includes(err, T_Denied)
    /\ out = <<>>

\* C13: isSystemdServiceEnabled throws when the availability assertion fails;
\* otherwise it returns true exactly when the is-enabled query for the unit
\* exits with code 0, whatever text the query prints
C13_IsEnabled ==
    /\ (op = "isEnabled" /\ pc = "thrown") =>
          /\ CmdsOf(events) = <<"status">>
          /\ events[1].res.code # 0
          /\ ~ret.done
    /\ (op = "isEnabled" /\ pc = "returned") =>
          /\ CmdsOf(events) = <<"status", "is-enabled">>
          /\ events[1].res.code = 0
          /\ events[2].unit = resolveSystemdServiceName(env) \o S_dot_service
          /\ ret.done
          /\ ret.value = (events[2].res.code = 0)
    /\ (op = "isEnabled" /\ pc = "is_enabled") => events[1].res.code = 0

C13_Witness ==
    /\ op = "isEnabled" /\ pc = "returned"
    /\ Len(events) = 2 /\ events[2].cmd = "is-enabled"
    /\ events[2].res.code = 0
    /\ events[2].res.stdout = T_Disabled
    /\ ret.done /\ ret.value = TRUE

\* an operation that begins with assertSystemdAvailable is running
Asserting ==
    op \in {"install", "uninstall", "stop", "restart", "isEnabled", "readRuntime"}

\* C14: the availability assertion of install, uninstall, stop, restart,
\* isEnabled and readRuntime passes exactly when the scoped status probe
\* exits 0; a failure whose text contains 'not found' in any case gives the
\* 'systemctl not available' error without a scope label, every other
\* failure an error with the resolved scope label and the captured detail
C14_Assertion ==
    /\ (Asserting /\ pc = "body") =>
          /\ CmdsOf(events) = <<"status">>
          /\ events[1].res.code = 0
          /\ err = <<>>
    /\ (Asserting /\ Len(events) >= 2) =>
          events[1].cmd = "status" /\ events[1].res.code = 0
    /\ (Asserting /\ pc = "assert_threw") =>
          LET detail == StrOr(events[1].res.stderr, events[1].res.stdout)
              label == IF cachedScopeArgs = UserArgs THEN S_user ELSE S_system
          IN  /\ CmdsOf(events) = <<"status">>
              /\ events[1].res.code # 0
              /\ events[1].scope = cachedScopeArgs
              /\ IF Includes(ToLowerCase(detail), S_not_found)
                 THEN /\ err = S_not_available
                      /\ ~Includes(err, <<"(">> \o S_user \o <<")">>)
                      /\ ~Includes(err, <<"(">> \o S_system \o <<")">>)
                 ELSE /\ Includes(err, <<"(">> \o label \o <<")">>)
                      /\ Includes(err, detail)
                      /\ err # S_not_available

C14_Witness ==
    /\ op = "isEnabled" /\ pc = "assert_threw"
    /\ cachedScopeArgs = UserArgs
    /\ events[1].res.stderr = T_FailedToConnect
    /\ Includes(err, <<"(">> \o S_user \o <<")">>)
    /\ Includes(err, T_FailedToConnect)

\* the is-enabled query for the name was run and exited 0
EnabledQuerySucceeded(name) ==
    \E i \in 1..Len(events) :
        /\ events[i].cmd = "is-enabled"
        /\ events[i].unit = name \o S_dot_service
        /\ events[i].res.code = 0

\* findLegacySystemdUnits has returned to its caller
FindReturned ==
    op = "findLegacy" /\ pc = "returned" /\ ret.done

\* C15: every record findLegacySystemdUnits returns has exists = true or
\* enabled = true; a legacy name whose unit file does not exist and whose
\* is-enabled query did not succeed, or was not run, is not in the result;
\* each legacy name appears at most once
C15_LegacyExclusion ==
    /\ \A i \in 1..Len(results) : results[i].exists \/ results[i].enabled
    /\ FindReturned =>
          /\ \A i \in 1..Len(ret.value) : ret.value[i].exists \/ ret.value[i].enabled
          /\ \A i, j \in 1..Len(ret.value) :
                ret.value[i].name = ret.value[j].name => i = j
          /\ \A n \in 1..Len(LegacyNames) :
                LET name == LegacyNames[n]
                    unitPath == resolveSystemdUnitPathForName(env, name)
                IN  (files[unitPath] = NoFile /\ ~EnabledQuerySucceeded(name)) =>
                       \A i \in 1..Len(ret.value) : ret.value[i].name # name

C15_Witness ==
    /\ FindReturned
    /\ Len(ret.value) = 1
    /\ ret.value[1].name = S_moltbot_gateway
    /\ ret.value[1].enabled /\ ~ret.value[1].exists
    /\ \E i \in 1..Len(events) :
          /\ events[i].cmd = "is-enabled"
          /\ events[i].unit = S_clawdbot_gateway \o S_dot_service
          /\ events[i].res.code # 0

\* a legacy operation is running or has just ended
LegacyOp ==
    op \in {"findLegacy", "uninstallLegacy"}

\* the is-enabled queries made so far
EnabledQueries ==
    SelectSeq(events, LAMBDA e : e.cmd = "is-enabled")

\* C16 as stated: findLegacySystemdUnits issues an is-enabled query only if
\* the manager is available; when the status probe fails, with a bus or scope
\* failure too, no is-enabled query is issued and every record has
\* enabled = false
C16_NoQueryAfterFailedProbe ==
    (LegacyOp /\ Len(events) >= 1 /\ events[1].res.code # 0) =>
        /\ EnabledQueries = <<>>
        /\ \A i \in 1..Len(results) : ~results[i].enabled

\* C16 amended: the manager counts as unavailable only when the status probe
\* fails with 'not found' in its text; then no is-enabled query is issued and
\* every record has enabled = false; after any other exit of the probe, a bus
\* or scope failure included, findLegacySystemdUnits queries every legacy name
C16_QueryUnlessNotFound ==
    (LegacyOp /\ Len(events) >= 1) =>
        LET res == events[1].res
            missing == /\ res.code # 0
                       /\ Includes(ToLowerCase(StrOr(res.stderr, res.stdout)),
                                   S_not_found)
        IN  /\ events[1].cmd = "status"
            /\ missing =>
                  /\ EnabledQueries = <<>>
                  /\ \A i \in 1..Len(results) : ~results[i].enabled
            /\ (~missing /\ FindReturned) =>
                  /\ Len(EnabledQueries) = Len(LegacyNames)
                  /\ \A i \in 1..Len(LegacyNames) :
                        EnabledQueries[i].unit = LegacyNames[i] \o S_dot_service

C16_Witness ==
    /\ FindReturned
    /\ events[1].cmd = "status" /\ events[1].res.stderr = T_CmdNotFound
    /\ EnabledQueries = <<>>
    /\ Len(ret.value) = 2
    /\ ~ret.value[1].enabled /\ ~ret.value[2].enabled

\* uninstallLegacySystemdUnits has returned to its caller
RemoveReturned ==
    op = "uninstallLegacy" /\ pc = "returned" /\ ret.done

\* the positions of the status probes among the events
StatusProbes ==
    {i \in 1..Len(events) : events[i].cmd = "status"}

\* the records the discovery pass found, read off the calls it made
Discovered ==
    LET found(n) ==
            \E i \in 1..Len(events) :
                /\ events[i].cmd = "fs.access"
                /\ events[i].unit = resolveSystemdUnitPathForName(NoEnv, LegacyNames[n])
                /\ events[i].res.code = 0
        hit(n) == found(n) \/ EnabledQuerySucceeded(LegacyNames[n])
        idxs == SelectSeq([n \in 1..Len(LegacyNames) |-> n], hit)
    IN  [k \in 1..Len(idxs) |->
            LegacyUnit(LegacyNames[idxs[k]],
                       resolveSystemdUnitPathForName(NoEnv, LegacyNames[idxs[k]]),
                       EnabledQuerySucceeded(LegacyNames[idxs[k]]), found(idxs[k]))]

\* C17: uninstallLegacySystemdUnits handles every discovered record once and
\* in discovery order: disable --now when the manager is available, otherwise
\* a warning line and no manager action; then, whatever the exit code of the
\* disable, the deletion of the unit file and one line reporting removal or
\* absence; it returns the discovered records; with none discovered it issues
\* no action and writes nothing
C17_UninstallLegacy ==
    RemoveReturned =>
        /\ ret.value = Discovered
        /\ ret.value = <<>> =>
              /\ out = <<>>
              /\ Cardinality(StatusProbes) = 1
              /\ \A i \in 1..Len(events) :
                    events[i].cmd \notin {"disable --now", "fs.unlink"}
        /\ ret.value # <<>> =>
              /\ Cardinality(StatusProbes) = 2
              /\ LET second == CHOOSE i \in StatusProbes : i > 1
                     res == events[second].res
                     available ==
                         \/ res.code = 0
                         \/ ~Includes(ToLowerCase(StrOr(res.stderr, res.stdout)),
                                      S_not_found)
                     tail == SubSeq(events, second + 1, Len(events))
                     per == IF available THEN 2 ELSE 1
                     lines == IF available THEN 1 ELSE 2
                 IN  /\ Len(tail) = per * Len(ret.value)
                     /\ Len(out) = lines * Len(ret.value)
                     /\ \A k \in 1..Len(ret.value) :
                           LET unit == ret.value[k]
                               unlink == tail[per * k]
                               line == out[lines * k]
                           IN  /\ available =>
                                     /\ tail[2 * k - 1].cmd = "disable --now"
                                     /\ tail[2 * k - 1].unit = unit.name \o S_dot_service
                               /\ ~available =>
                                     out[2 * k - 1] = LegacyWarning(unit)
                               /\ unlink.cmd = "fs.unlink"
                               /\ unlink.unit = unit.unitPath
                               /\ line.value = unit.unitPath
                               /\ line.label =
                                     IF unlink.res.code = 0
                                     THEN "Removed legacy systemd service"
                                     ELSE "Legacy systemd unit not found at"
                               /\ files[unit.unitPath] = NoFile

C17_Witness ==
    /\ RemoveReturned
    /\ Len(ret.value) = 2
    /\ ret.value[1].exists /\ ~ret.value[2].exists
    /\ CmdsOf(SubSeq(events, Len(events) - 3, Len(events)))
          = <<"disable --now", "fs.unlink", "disable --now", "fs.unlink">>
    /\ events[Len(events) - 3].res.code # 0
    /\ out = <<LegacyLine(ret.value[1].unitPath, TRUE),
               LegacyLine(ret.value[2].unitPath, FALSE)>>

\* the pairs of an environment, whatever their order
PairsOf(environment) ==
    {environment[i] : i \in 1..Len(environment)}

\* a unit has been built from a config, written and read back
RoundTripDone ==
    call.fn = "buildSystemdUnit" /\ ret.done

ExecStartValues(content) ==
    LET lines == SplitOn(content, "\n")
        value(l) == Trim(SubSeq(Trim(l), Len(S_ExecStart_eq) + 1, Len(Trim(l))))
    IN  { value(lines[i]) : i \in
            { j \in 1..Len(lines) :
                /\ Trim(lines[j]) # <<>>
                /\ ~StartsWith(Trim(lines[j]), <<"#">>)
                /\ StartsWith(Trim(lines[j]), S_ExecStart_eq)
                /\ value(lines[j]) # <<>> } }

WorkflowReads ==
    {P_WORKFLOW, P_DotWorkflow, P_AbsWorkflow, P_UpWorkflow}

\* the read paths the daily-memory pattern matches
DailyReads ==
    {P_Daily, P_AbsDaily, P_OldDaily}

\* the entry exists on disk and no read path matches it
ExpectMissing(required) ==
    LET reads == {call.readFilePaths[i] : i \in 1..Len(call.readFilePaths)}
    IN  IF required.kind = "RegExp"
        THEN /\ Resolve(P_ws, P_AbsDaily) \in call.disk
             /\ reads \cap DailyReads = {}
        ELSE IF required.text = P_custom
        THEN /\ Resolve(P_ws, P_AbsCustom) \in call.disk
             /\ P_custom \notin reads
        ELSE /\ Resolve(P_ws, P_AbsWorkflow) \in call.disk
             /\ reads \cap WorkflowReads = {}

\* C20: auditPostCompactionReads reports as missing exactly the required
\* entries that exist on disk in the workspace and that no read path matches
\* once relative, './'-prefixed and absolute read paths are resolved against
\* the workspace; an entry with nothing on disk is never reported; passed is
\* true exactly when the missing list is empty
C20_AuditMissing ==
    (call.fn = "auditPostCompactionReads" /\ ret.done) =>
        LET expected == SelectSeq(call.requiredReads, ExpectMissing)
        IN  /\ ret.value.missingPatterns = [i \in 1..Len(expected) |-> expected[i].text]
            /\ ret.value.passed = (ret.value.missingPatterns = <<>>)

C20_Witness ==
    /\ call.fn = "auditPostCompactionReads" /\ ret.done
    /\ call.requiredReads = DEFAULT_REQUIRED_READS
    /\ call.disk = {Resolve(P_ws, P_AbsWorkflow), Resolve(P_ws, P_AbsNotes)}
    /\ call.readFilePaths = <<P_Notes, P_OtherWorkflow>>
    /\ ret.value.missingPatterns = <<P_WORKFLOW>>
    /\ ~ret.value.passed

\* the path a block contributes by the claim's words: of a tool_use block
\* named read, the string file_path if the input has one, else its string path
ClaimedPath(block) ==
    IF block.type = "tool_use" /\ block.name = "read" /\ block.input.present
    THEN IF block.input.file_path.t = "string" THEN <<block.input.file_path.v>>
         ELSE IF block.input.path.t = "string" THEN <<block.input.path.v>>
         ELSE <<>>
    ELSE <<>>

RECURSIVE ClaimedOfBlocks(_)
ClaimedOfBlocks(blocks) ==
    IF blocks = <<>> THEN <<>>
    ELSE ClaimedPath(Head(blocks)) \o ClaimedOfBlocks(Tail(blocks))

RECURSIVE ClaimedPaths(_)
ClaimedPaths(messages) ==
    IF messages = <<>> THEN <<>>
    ELSE LET msg == Head(messages)
         IN  (IF msg.role = "assistant" /\ msg.isArray
              THEN ClaimedOfBlocks(msg.blocks)
              ELSE <<>>)
             \o ClaimedPaths(Tail(messages))

\* C21: extractReadPaths returns, in message and block order, one path for
\* each tool_use block named read in the array content of an assistant
\* message whose input has a string file_path (preferred) or a string path;
\* other messages, other content and other tools contribute nothing, and an
\* empty list of messages gives an empty result
C21_ExtractReadPaths ==
    (call.fn = "extractReadPaths" /\ ret.done) =>
        ret.value = ClaimedPaths(call.messages)

\* the path a block contributes once file_path is taken whenever it is
\* neither null nor absent, whatever its type
FirstPresentPath(block) ==
    IF block.type # "tool_use" \/ block.name # "read" \/ ~block.input.present
    THEN <<>>
    ELSE IF block.input.file_path.t = "string" THEN <<block.input.file_path.v>>
    ELSE IF block.input.file_path \notin {JsNull, JsUndefined} THEN <<>>
    ELSE IF block.input.path.t = "string" THEN <<block.input.path.v>>
    ELSE <<>>

RECURSIVE FirstPresentOfBlocks(_)
FirstPresentOfBlocks(blocks) ==
    IF blocks = <<>> THEN <<>>
    ELSE FirstPresentPath(Head(blocks)) \o FirstPresentOfBlocks(Tail(blocks))

RECURSIVE FirstPresentPaths(_)
FirstPresentPaths(messages) ==
    IF messages = <<>> THEN <<>>
    ELSE LET msg == Head(messages)
         IN  (IF msg.role = "assistant" /\ msg.isArray
              THEN FirstPresentOfBlocks(msg.blocks)
              ELSE <<>>)
             \o FirstPresentPaths(Tail(messages))

\* C21 (amended): extractReadPaths returns, in message and block order, one
\* path for each tool_use block named read in the array content of an
\* assistant message whose file_path is a string, or whose file_path is null
\* or absent and whose path is a string; a file_path that is present and not
\* a string hides the path; everything else contributes nothing
C21_ExtractFirstPresent ==
    (call.fn = "extractReadPaths" /\ ret.done) =>
        ret.value = FirstPresentPaths(call.messages)

C21_Witness ==
    /\ call.fn = "extractReadPaths" /\ ret.done
    /\ call.messages =
         << Message("assistant", TRUE,
                << Block("tool_use", "read", Input(JsUndefined, JsString(P_Notes))),
                   Block("tool_use", "read", Input(JsString(P_Daily), JsUndefined)) >>),
            Message("assistant", TRUE,
                << Block("tool_use", "exec", Input(JsString(P_WORKFLOW), JsUndefined)),
                   Block("tool_use", "read",
                         Input(JsString(P_Daily), JsString(P_Notes))) >>) >>
    /\ ret.value = <<P_Notes, P_Daily, P_Daily>>

\* the manager invocations of the running operation that name a unit
UnitInvocations ==
    {i \in 1..Len(events) : events[i].cmd \notin FsCmds /\ events[i].unit # NoUnit}

\* the unit files the running operation has written or deleted
UnitFileCalls ==
    {i \in 1..Len(events) : events[i].cmd \in {"fs.writeFile", "fs.unlink"}}

\* C22: for every environment, also one that sets the unit-name override,
\* the unit that install hands to enable and restart and that uninstall hands
\* to disable --now is the unit whose file the same call writes or deletes,
\* and is the unit that stop, restart, isEnabled and readRuntime name for
\* that environment
C22_UnitIdentity ==
    op \in {"install", "uninstall"} =>
        \A i \in UnitInvocations :
            /\ events[i].unit = resolveSystemdServiceName(env) \o S_dot_service
            /\ \A j \in UnitFileCalls :
                  events[j].unit = S_home \o S_unit_dir \o events[i].unit

\* install threw at daemon-reload, enable or restart
InstallStepFailed ==
    /\ op = "install" /\ pc = "thrown"
    /\ ManagerActions # <<>>
    /\ ManagerActions[Len(ManagerActions)].res.code # 0

\* install made a backup: the copy of the unit file succeeded
BackupMade ==
    \E i \in 1..Len(events) : events[i].cmd = "fs.copyFile" /\ events[i].res.code = 0

\* C23: when install fails at daemon-reload, enable or restart, the unit
\* file keeps the newly written content and a backup that was made stays in
\* place, the failed step is not issued again and no summary is written; the
\* summary is written only after all three steps exited 0, and it lists the
\* backup path exactly when a backup was made
C23_NoRollback ==
    op = "install" =>
        LET unitPath == resolveSystemdUnitPath(env)
            unit == buildSystemdUnit(resolveGatewayServiceDescription(env, cfg),
                                     cfg.programArguments, cfg.workingDirectory,
                                     cfg.environment)
            acts == ManagerActions
            installed == [label |-> "Installed systemd service", value |-> unitPath]
            backup == [label |-> "Previous unit backed up to",
                       value |-> unitPath \o S_bak]
        IN  /\ InstallStepFailed =>
                  /\ files[unitPath] = unit
                  /\ BackupMade => files[unitPath \o S_bak] = preUnit
                  /\ ~BackupMade => files[unitPath \o S_bak] = preBak
                  /\ \A i \in 1..Len(events) : events[i].cmd # "fs.unlink"
                  /\ \A i, j \in 1..Len(acts) : acts[i].cmd = acts[j].cmd => i = j
                  /\ events[Len(events)] = acts[Len(acts)]
                  /\ out = <<>>
            /\ out # <<>> =>
                  /\ pc = "returned"
                  /\ CmdsOf(acts) = <<"daemon-reload", "enable", "restart">>
                  /\ \A i \in 1..3 : acts[i].res.code = 0
                  /\ out = IF BackupMade THEN <<installed, backup>> ELSE <<installed>>
            /\ pc = "returned" => out # <<>>

C23_Witness ==
    /\ InstallStepFailed
    /\ CmdsOf(ManagerActions) = <<"daemon-reload", "enable", "restart">>
    /\ BackupMade
    /\ preUnit = F_Foreign
    /\ files[resolveSystemdUnitPath(env)] # F_Foreign
    /\ files[BackupPath(resolveSystemdUnitPath(env))] = F_Foreign
    /\ out = <<>>

\* the operations that throw what assertSystemdAvailable throws
Throwing ==
    op \in {"install", "uninstall", "stop", "restart", "isEnabled"}

\* the status probe of the running operation exited non-zero
StatusFailed ==
    \E i \in 1..Len(events) : events[i].cmd = "status" /\ events[i].res.code # 0

\* the assertion of the operation is running: nothing precedes it
InAssertion ==
    pc \in {"assert_scope", "assert_status"}

\* C24: when the availability assertion fails, install, uninstall, stop,
\* restart and isEnabled throw before doing anything else: no directory is
\* created, no unit or backup file is written, copied or deleted, no manager
\* action but the scope probe and the status probe is issued, and nothing is
\* written to the output sink
C24_ThrowBeforeAnything ==
    [][ /\ (Throwing /\ StatusFailed)' =>
              /\ pc' \in {"assert_threw", "thrown"}
              /\ err' # <<>>
              /\ CmdsOf(events') = <<"status">>
              /\ out' = <<>>
              /\ files' = files
        /\ (Throwing /\ (InAssertion \/ StatusFailed)) =>
              /\ files' = files
              /\ out' = <<>>
              /\ \A i \in 1..Len(events') : events'[i].cmd = "status"
        /\ (Throwing /\ StatusFailed /\ pc = "thrown") =>
              op' = "none" ]_vars

C24_Witness ==
    /\ op = "install" /\ pc = "thrown"
    /\ StatusFailed
    /\ files[resolveSystemdUnitPath(NoEnv)] = F_Foreign
    /\ files[BackupPath(resolveSystemdUnitPath(NoEnv))] = NoFile
    /\ CmdsOf(events) = <<"status">>
    /\ out = <<>>

\* the operations that may change unit files and their backups
Mutators ==
    {"install", "uninstall", "uninstallLegacy"}

\* C25: unit files and their .bak siblings are changed only by install,
\* uninstall and legacy uninstall: no step of stop, restart, isEnabled,
\* readRuntime, readSystemdServiceExecStart, findLegacySystemdUnits or scope
\* resolution changes any unit file or backup file
C25_FilesFrame ==
    [][ /\ (\E p \in Paths : files'[p] # files[p]) => op \in Mutators /\ op' = op
        /\ op' \notin Mutators \cup {"none"} => files' = files ]_vars

C25_Witness ==
    /\ op = "readExecStart" /\ pc = "returned"
    /\ lastInstall # NoLast
    /\ env = lastInstall.env
    /\ files[resolveSystemdUnitPath(env)] = lastInstall.unit
    /\ ret.value # {}

\* the scope flags of the manager invocations of the running operation
ScopesUsed ==
    {events[i].scope : i \in {j \in 1..Len(events) : events[j].cmd \notin FsCmds}}

\* C26: apart from the auto-detect probe, every manager invocation of an
\* operation carries the flag of the cached scope decision, so that all
\* manager invocations of one operation refer to one and the same scope
C26_OneScope ==
    Cardinality(ScopesUsed) <= 1

\* the integer an integer text of NumberTexts stands for
IntegerOf(t) ==
    CASE t = <<"0">> -> 0
      [] t = <<"4","2">> -> 42
      [] t = <<"-","5">> -> 0 - 5
      [] t = <<"+","7">> -> 7
      [] t = <<"0","0","7">> -> 7

\* a property as the result holds it: the raw text, nothing when empty or absent
Verbatim(text) ==
    IF text = Undefined \/ text = <<>> THEN Undefined ELSE text

\* C27: when the show query succeeds, readSystemdServiceRuntime hands on the
\* raw ActiveState and SubState as state and subState, ExecMainCode as
\* lastExitReason, every integer ExecMainStatus, also 0, as lastExitStatus,
\* and MainPID as pid only when it is a positive integer: a MainPID of 0 or
\* below gives a result without pid
C27_ShowFields ==
    (call.fn = "readSystemdServiceRuntime" /\ ret.done) =>
        /\ ret.value.state = Verbatim(call.activeState)
        /\ ret.value.subState = Verbatim(call.subState)
        /\ ret.value.lastExitReason = Verbatim(call.execMainCode)
        /\ (call.execMainStatus # Undefined /\ IsIntegerText(call.execMainStatus)) =>
              ret.value.lastExitStatus = {IntegerOf(call.execMainStatus)}
        /\ \A p \in ret.value.pid : p > 0
        /\ (call.mainPid # Undefined /\ IsIntegerText(call.mainPid)) =>
              ret.value.pid = IF IntegerOf(call.mainPid) > 0
                              THEN {IntegerOf(call.mainPid)} ELSE {}
        /\ call.mainPid = Undefined => ret.value.pid = {}

C27_Witness ==
    /\ call.fn = "readSystemdServiceRuntime" /\ ret.done
    /\ call.activeState = V_Active_mixed
    /\ call.mainPid = <<"0">>
    /\ call.execMainStatus = <<"0">>
    /\ ret.value.status = "running"
    /\ ret.value.state = V_Active_mixed
    /\ ret.value.pid = {}
    /\ ret.value.lastExitStatus = {0}

====
